---- MODULE Spec2Model ----
(***************************************************************************)
(* Model of the SeleniumChatGPT automation driver                          *)
(* (src/docker/SeleniumChatGPT.py, src/docker/SeleniumDriverHelper.py).    *)
(*                                                                         *)
(* The driver is one blocking thread of control.  Every call of a helper   *)
(* primitive is one step; what the primitive sees of the remote document   *)
(* at that instant is drawn with \E, because the document is outside the   *)
(* program.  The only parts of the document that are kept between steps    *)
(* are the ones the program's own actions determine: the index of the      *)
(* last assistant turn, the content of the input surface, the clipboard.   *)
(***************************************************************************)
EXTENDS Integers, Sequences, FiniteSets, TLC

(* ---------------------------- bounds -------------------------------- *)
\* number of prompts the remote document is let to take in one conversation
MaxPrompts == 3

\* number of locators given to one wait_for_mutually_exclusive_elements call
NLocators == 3
\* number of times the document changes under a running helper call
MaxDocChanges == 1
\* number of times the polled content changes under check_element_stability
MaxMutations == 2
\* clock value after which a sleeping check_element_stability is left asleep
MaxTime == 8

\* quit() calls made in a row on one object
MaxQuits == 2

\* callers of the server, one outstanding request each
MaxConnections == 2

\* steps of the server's clock, of TickSeconds seconds each
MaxTicks == 3

TickSeconds == 1801

\* processes that construct a SeleniumChatGPT with a capsolver_client_key
NProcesses == 2

\* app.config['MAX_IDLE_SECONDS']
MAX_IDLE_SECONDS == 3600

(* ------------------------ program constants ------------------------- *)
\* tenacity.stop_after_attempt(5) on _login
LOGIN_ATTEMPTS == 5
\* max_tries of the post-submission loop of _login
LOGIN_MAX_TRIES == 10
\* max_tries of the generation lifecycle loop of chat and of regenerate
GEN_MAX_TRIES == 5
\* last_turn assumed by chat when no assistant turn exists ("system prompt")
BASELINE_TURN == 1

LoginTypes == {"OpenAI", "Microsoft"}

\* the texts a caller asks; a text is a sequence of characters
Questions == { <<"h">>, <<"h", "\n", "i">> }

\* the input_method value chat passes to find_then_input_or_fail
CHAT_INPUT_METHOD == "copy_paste"

\* the model names switch_model and _get_current_model know
ModelNames == {"GPT-4o", "GPT-4o mini", "GPT-4"}

\* the texts the model menu is seen to display, and the names a caller asks
DisplayedNames == {"4o", "4", "o1"}

TargetModels == {"GPT-4o", "GPT-4", "GPT-5"}

\* the methods class SeleniumDriverHelper defines
HelperMethods ==
    { "find_element_or_fail", "wait_until_appear", "wait_until_disappear",
      "wait_for_mutually_exclusive_elements", "_click", "_input",
      "wait_until_appear_then_click", "wait_until_appear_then_input",
      "find_then_click_or_fail", "find_then_input_or_fail",
      "check_element_stability" }

(* ------------------------- exceptions ------------------------------- *)
\* str(exception) of every exception the driver can raise, as words
ExcMessage ==
    [ Oops            |-> <<"Oops">>,
      LoginStatus     |-> <<"Login", "status", "check", "failed.">>,
      LabelNotFound   |-> <<"Label", "not", "found!">>,
      LoginMaxRetries |-> <<"Login", "failed.", "Max", "retries", "meet.">>,
      GenError        |-> <<"Error", "occurred", "while", "generating", "response!">>,
      RegenMaxRetries |-> <<"Regenerate", "failed.", "Max", "retries", "meet.">>,
      NoElements      |-> <<"No", "elements", "were", "found">>,
      AttributeError  |-> <<"'SeleniumDriverHelper'", "object", "has", "no", "attribute">>,
      NoSuchElement   |-> <<"Message:", "no", "such", "element">>,
      Timeout         |-> <<"Message:">>,
      NoneType        |-> <<"'NoneType'", "object", "has", "no", "attribute">>,
      UnexpectedModel |-> <<"Unexpected", "model:">>,
      InvalidModelName |-> <<"Invalid", "model", "name:">>,
      RetryError      |-> <<"RetryError">> ]

RetryOnAnyException(e) == TRUE

\* tenacity.retry_if_exception_message(match='Oops'): re.match anchors the
\* pattern at the start of the message
RetryIfOops(e) == ExcMessage[e][1] = "Oops"

(* --------------------- helper primitives ---------------------------- *)
\* a primitive's outcome: what it returns, or the exception it raises
Ret(v) == [val |-> v, exc |-> "none"]
Raise(e) == [val |-> "None", exc |-> e]

\* SeleniumDriverHelper.find_element_or_fail
FindElementOrFail(present, ignore_failure) ==
    IF present THEN Ret("Element")
    ELSE IF ignore_failure THEN Ret("None") ELSE Raise("NoSuchElement")

WaitUntilAppearSwallow(visible, ignore_timeout) ==
    IF visible THEN Ret("Element") ELSE Ret("None")

\* SeleniumDriverHelper.wait_until_appear
WaitUntilAppear(visible, ignore_timeout) ==
    IF visible THEN Ret("Element")
    ELSE IF ignore_timeout THEN Ret("None") ELSE Raise("Timeout")

WaitUntilDisappearSwallow(gone, ignore_timeout) ==
    IF gone THEN Ret("True") ELSE Ret("False")

\* SeleniumDriverHelper.wait_until_disappear
WaitUntilDisappear(gone, ignore_timeout) ==
    IF gone THEN Ret("True")
    ELSE IF ignore_timeout THEN Ret("False") ELSE Raise("Timeout")

\* SeleniumDriverHelper._click
Click(element) == element # "None"

\* the smallest index of labels whose locator is in present
LastPresent(labels, present) ==
    CHOOSE i \in present : \A j \in present : i >= j

\* wait_for_mutually_exclusive_elements: `for query, label in zip(queries,
\* labels)` returns at the first query find_element resolves
FirstPresent(labels, present) ==
    CHOOSE i \in present : \A j \in present : i <= j

WaitForMutuallyExclusiveSoft(labels, visible, present, ignore_timeout) ==
    IF visible = {} \/ present = {}
    THEN IF ignore_timeout \/ visible # {} THEN Ret("None") ELSE Raise("Timeout")
    ELSE Ret(labels[FirstPresent(labels, present)])

\* SeleniumDriverHelper.wait_for_mutually_exclusive_elements: visible is the
\* set of indices the wait phase sees visible (empty: the wait timed out),
\* present the set find_element resolves afterwards
WaitForMutuallyExclusive(labels, visible, present, ignore_timeout) ==
    IF visible = {}
    THEN IF ignore_timeout THEN Ret("None") ELSE Raise("Timeout")
    ELSE IF present = {} THEN Raise("NoElements")
         ELSE Ret(labels[FirstPresent(labels, present)])

\* str.split("\n") of a text: the sequence of its lines
RECURSIVE SplitLines(_)
SplitLines(text) ==
    IF \A i \in 1..Len(text) : text[i] # "\n" THEN <<text>>
    ELSE LET k == CHOOSE i \in 1..Len(text) :
                     text[i] = "\n" /\ \A j \in 1..(i-1) : text[j] # "\n"
         IN <<SubSeq(text, 1, k-1)>> \o SplitLines(SubSeq(text, k+1, Len(text)))

\* the keys 'split_lines' sends: each line, and "\n" after all but the last
RECURSIVE SendLines(_, _)
SendLines(content, lines) ==
    IF Len(lines) = 0 THEN content
    ELSE IF Len(lines) = 1 THEN content \o lines[1]
    ELSE SendLines(content \o lines[1] \o <<"\n">>, Tail(lines))

\* SeleniumDriverHelper._input: the content of the element afterwards.  A
\* method that matches no case leaves the element as it was.
InputContent(content, text, input_method) ==
    CASE input_method = "whole"       -> content \o text
      [] input_method = "split_lines" -> SendLines(content, SplitLines(text))
      [] input_method = "javascript"  -> text
      [] OTHER                        -> content

\* SeleniumDriverHelper._input: its return value
InputReturns(element) == element # "None"

StabilityConfirmedAtOnce(start, t, window) == start # 0

FinalReadIgnored(reread, last) == TRUE

\* check_element_stability: element.get_attribute('innerHTML') ==
\* last_content, read again once the window has passed
FinalReadUnchanged(reread, last) == reread = last

\* check_element_stability: the confirmation timer has run for the window;
\* start is 0 for stability_start_time = None
StabilityConfirmed(start, t, window) == start # 0 /\ t - start >= window

\* check_element_stability: its handler of TimeoutException
StabilityOnTimeout(ignore_timeout) ==
    IF ignore_timeout THEN Ret("None") ELSE Raise("Timeout")

(* ------------------------ driver functions -------------------------- *)
ExpectedTurnSame(last) == last

\* expected_turn of chat
ExpectedTurnChat(last) == last + 2

ExpectedTurnRegenPlusTwo(last) == last + 2

\* expected_turn of regenerate
ExpectedTurnRegenerate(last) == last

\* xpath_chat__conversation_specified_assistant_turn_outer_div: the article
\* of conversation-turn-{turn} that is the scroll anchor, in a document with
\* an assistant message; last is the index of the last assistant turn
AnyTurnShown(last, turn) == last > BASELINE_TURN

SpecifiedTurnShown(last, turn) == last = turn /\ last > BASELINE_TURN

\* xpath_chat__conversation_last_assistant_turn_outer_div
LastAssistantTurnShown(last) == last > BASELINE_TURN

\* _get_current_model: 'GPT-' + the displayed name
CurrentModelName(text) == "GPT-" \o text

ModelNeverAlreadySet(target, current) == FALSE

\* switch_model: target_model == current_model
ModelAlreadySet(target, current) == target = current

\* _get_current_temporary_mode: the URL parameter or either indicator
CurrentTemporaryMode(url, indicator1, indicator2) ==
    url \/ indicator1 \/ indicator2

TemporaryModeNeverAlreadySet(is_temporary, target) == FALSE

\* switch_temporary_mode: is_temporary == target_mode
TemporaryModeAlreadySet(is_temporary, target) == is_temporary = target

QuitReraises(raised) ==
    IF raised THEN Raise("WebDriverException") ELSE Ret("True")

\* quit: try browser.quit() / except Exception: return False / return True
QuitResult(raised) ==
    IF raised THEN Ret("False") ELSE Ret("True")

(* --------------------------- state ---------------------------------- *)
VARIABLES
    pc,            \* position of the driver's thread of control
    op,            \* facade operation in progress
    login_type,    \* self._login_type
    attempt,       \* tenacity attempt number of the running _login
    loop_count,    \* loop_count of the running bounded loop
    sub,           \* step of the provider sub-flow
    last_turn,     \* last_turn of chat / regenerate
    expected_turn, \* expected_turn of chat / regenerate
    question,      \* the text given to chat
    err,           \* exception the last operation raised, "none" if none
    answer,        \* value the last chat / regenerate returned, 0 if none
    shots,         \* labels of the debug screenshots saved
    docTurn,       \* remote: index of the last assistant turn, 1 if none
    pending,       \* remote: a prompt was sent and its turns are not there yet
    promptText,    \* remote: content of the input surface
    clipboard,     \* system clipboard: 0 empty, -1 an older value, else the
                   \* turn whose answer was copied
    copyPending,   \* remote: copy was clicked, clipboard not yet written
    target_model,  \* target_model of switch_model
    displayed,     \* remote: the name the model menu displays
    menuOpen,      \* remote: the model menu is open
    target_mode,   \* target_mode of switch_temporary_mode
    temporary,     \* remote: the 'Temporary Mode' switch is on
    quit_ret,      \* what the last quit() returned
    hist           \* record of what happened in the running operation

driverVars == << pc, op, login_type, attempt, loop_count, sub, last_turn,
                 expected_turn, question, err, answer, shots, docTurn, pending,
                 promptText, clipboard, copyPending, target_model, displayed,
                 menuOpen, target_mode, temporary, quit_ret, hist >>

\* a helper primitive called on its own, on a document of NLocators locators
VARIABLES
    h_fn,          \* the primitive called, "none" if none
    h_ignore,      \* its ignore_failure / ignore_timeout argument
    h_doc,         \* remote: each locator's element is absent from the
                   \* document, in it but not displayed, or visible
    h_pc,          \* position inside the primitive
    h_out,         \* what the primitive returned or raised
    h_elem,        \* index of the locator whose element was returned, or 0
    h_seen,        \* the locators that were visible when the wait phase of
                   \* wait_for_mutually_exclusive_elements ended
    h_changes,     \* number of changes of h_doc under the running call
    check_period,        \* check_element_stability: its arguments and locals
    confirmation_time,
    last_content,
    stability_start_time,
    now,           \* time.time()
    wake,          \* the time at which time.sleep(check_period) returns
    innerHTML,     \* remote: innerHTML of the element
    mutations,     \* number of changes of innerHTML so far
    lastMut,       \* time of the last change of innerHTML
    obsLog         \* the reads of innerHTML made: << time, value >> each

helperVars == << h_fn, h_ignore, h_doc, h_pc, h_out, h_elem, h_seen, h_changes,
                 check_period, confirmation_time, last_content,
                 stability_start_time, now, wake, innerHTML, mutations, lastMut,
                 obsLog >>

VARIABLES
    client,            \* the server's global client: "None" or "Client"
    TEARDOWN,          \* app.config['TEARDOWN']
    LAST_REQUEST_TIME, \* app.config['LAST_REQUEST_TIME']
    srv_time,          \* time.time() in the server process
    serving,           \* the server process runs
    browser,           \* remote: the browser process, "none", "running" or "quit"
    req,               \* per caller: route, position of its handler, status code
                       \* returned, and whether a driver call raised in it
    sessionFailed,     \* a driver call raised since the client was constructed
    servedFailed       \* a driver call was started after sessionFailed

serverVars == << client, TEARDOWN, LAST_REQUEST_TIME, srv_time, serving, browser,
                 req, sessionFailed, servedFailed >>

VARIABLES
    proc_cwd,      \* per process: its working directory
    proc_key,      \* per process: its capsolver_client_key (new_api_key)
    proc_pc,       \* per process: its position in _replace_api_key
    proc_content,  \* per process: the apiKey of the content it read
    proc_exc,      \* per process: the exception _replace_api_key raised
    file_lock,     \* per directory: the process holding its .file_lock, or 0
    config         \* the apiKey in the extension's config.js

lockVars == << proc_cwd, proc_key, proc_pc, proc_content, proc_exc, file_lock,
               config >>

vars == << driverVars, helperVars, serverVars, lockVars >>

progVars == << login_type, attempt, loop_count, sub, last_turn,
               expected_turn, question, answer >>

remoteVars == << docTurn, pending, promptText, clipboard, copyPending >>

switchVars == << target_model, displayed, menuOpen >>

tempVars == << target_mode, temporary >>

\* hist at the start of an operation
EmptyHist ==
    [ log        |-> << >>,   \* _login: what each attempt ran into
      raised     |-> << >>,   \* _login: the exception each attempt raised
      obs        |-> << >>,   \* lifecycle loop: what each iteration resolved
      clicks     |-> 0,       \* regenerate clicks made inside the loop
      read       |-> FALSE,   \* the last assistant turn has been looked for
      observed   |-> 0,       \* turn read from the document, 0 if absent
      target     |-> 0,       \* turn the answer wait was made on
      copied     |-> 0,       \* turn whose copy button was clicked
      typed      |-> FALSE,   \* the question was delivered to the input
      sendGone   |-> FALSE,   \* the disabled send control was seen gone
      sendClick  |-> FALSE,   \* the send control was clicked
      typedFirst |-> FALSE,   \* typed held when the send control was clicked
      banner1    |-> FALSE,   \* an error banner was shown at the expected
                              \* turn when iteration 1 resolved its wait
      kind       |-> "login", \* the operation the record is about
      prevAsk    |-> 0,       \* last_turn of the last successful ask of
                              \* this conversation, 0 if none
      prevPrev   |-> 0,       \* and of the successful ask before that one
      exitIter   |-> 0,       \* iteration the lifecycle loop broke out at
      entry      |-> << >>,   \* _login: what the status check of the running
                              \* attempt found: <<welcome login button, login
                              \* button, prompt textarea>>
      subRan     |-> FALSE,   \* _login: the running attempt entered the
                              \* provider sub-flow
      cleared    |-> FALSE,   \* the clipboard was cleared
      clickAfterClear |-> FALSE, \* cleared held when the copy button was clicked
      fresh      |-> FALSE,   \* the clipboard was written after it was cleared
      current    |-> "",      \* switch_model: the current model it read
      uiClicks   |-> 0,       \* switch_model: clicks made on the model menu
      shownAtRead |-> "",     \* switch_model: displayed when it was read
      modeRead   |-> FALSE,   \* switch_temporary_mode: is_temporary was read
      is_temporary |-> FALSE, \* switch_temporary_mode: is_temporary
      tempAtRead |-> FALSE,   \* switch_temporary_mode: temporary and menuOpen
      menuAtRead |-> FALSE,   \* when is_temporary was read
      toggles    |-> 0,       \* switch_temporary_mode: clicks on the switch
      stale      |-> FALSE,   \* loop: regenerate was clicked with a message at
                              \* expected_turn, which the remote has not replaced
      staleNormal |-> FALSE,  \* loop: 'NormalMessage' was resolved on it
      inputReturned |-> FALSE, \* chat: find_then_input_or_fail returned True
      preClick   |-> FALSE,   \* regenerate: the regenerate control of the last
                              \* turn was clicked, before the loop
      oldGone    |-> FALSE,   \* regenerate: the old answer was seen gone
      noTurn     |-> FALSE,   \* regenerate: no assistant turn was there when
                              \* the last one was looked for
      signal     |-> "",      \* _login: label resolved by the latest iteration
      stepClicks |-> 0,       \* _login: clicks made in the step of that label
      quits      |-> 0,       \* quit: calls made in a row
      quitRaised |-> FALSE,   \* quit: browser.quit() raised in the last call
      enumerated |-> FALSE,   \* switch_model: MODEL_NAMES was read
      names      |-> {},      \* switch_model: MODEL_NAMES
      again      |-> FALSE ]  \* switch_model: the call before this one was a
                              \* switch_model to the same target that
                              \* returned after clicking the target's item

\* no helper primitive is called on its own
HelperIdle ==
    /\ h_fn = "none"
    /\ h_ignore = FALSE
    /\ h_doc = [i \in 1..NLocators |-> "absent"]
    /\ h_pc = "done"
    /\ h_out = [val |-> "None", exc |-> "none"]
    /\ h_elem = 0
    /\ h_seen = {}
    /\ h_changes = 0
    /\ check_period = 1
    /\ confirmation_time = 1
    /\ last_content = "None"
    /\ stability_start_time = 0
    /\ now = 1
    /\ wake = 0
    /\ innerHTML = "a"
    /\ mutations = 0
    /\ lastMut = 0
    /\ obsLog = << >>

DriverInit ==
    /\ pc = "l_enter"
    /\ op = "login"
    /\ login_type \in LoginTypes
    /\ attempt = 1
    /\ loop_count = 0
    /\ sub = 0
    /\ last_turn = 0
    /\ expected_turn = 0
    /\ question = << >>
    /\ err = "none"
    /\ answer = 0
    /\ shots = {}
    /\ docTurn = 1
    /\ pending = FALSE
    /\ promptText = << >>
    /\ clipboard \in {0, -1}
    /\ copyPending = FALSE
    /\ target_model = ""
    /\ displayed \in DisplayedNames
    /\ menuOpen = FALSE
    /\ target_mode = FALSE
    /\ temporary = FALSE
    /\ quit_ret = "none"
    /\ hist = EmptyHist

\* a request slot: its route, the position of its handler, the status code
\* of its response, whether a driver call raised in it, the `client` its
\* handler found ("" before the handler ran) and how a shutdown() run in it
\* ended ("" when none ran)
NoRequest == [route |-> "none", pc |-> "none", code |-> 0, raised |-> FALSE,
              found |-> "", shut |-> ""]

SignalNever(flag) == FALSE

\* teardown_request_func: `if app.config['TEARDOWN']: os.kill(os.getpid(),
\* signal.SIGINT)`
SignalSent(flag) == flag

\* how shutdown() ended, from `client` before and after it
ShutdownOutcome(before, after) ==
    IF before = "Client" /\ after = "None" THEN "dropped"
    ELSE IF before = "Client" THEN "quit_failed" ELSE "no_client"

\* the server process is not started
ServerIdle ==
    /\ client = "None"
    /\ TEARDOWN = FALSE
    /\ LAST_REQUEST_TIME = 0
    /\ srv_time = 0
    /\ serving = FALSE
    /\ browser = "none"
    /\ req = [c \in 1..MaxConnections |-> NoRequest]
    /\ sessionFailed = FALSE
    /\ servedFailed = FALSE

\* working directories a process can be started in
Directories == {"dir1", "dir2"}

\* API keys
ApiKeys == {"key1", "key2"}

\* no process constructs a SeleniumChatGPT
LockIdle ==
    /\ proc_cwd = [p \in 1..NProcesses |-> "dir1"]
    /\ proc_key = [p \in 1..NProcesses |-> "key1"]
    /\ proc_pc = [p \in 1..NProcesses |-> "done"]
    /\ proc_content = [p \in 1..NProcesses |-> "unread"]
    /\ proc_exc = [p \in 1..NProcesses |-> "none"]
    /\ file_lock = [d \in Directories |-> 0]
    /\ config = "key1"

Init == DriverInit /\ HelperIdle /\ ServerIdle /\ LockIdle

(* --------------------- diagnostics sink ----------------------------- *)
\* self._helper.save_debug_screenshot(label): an attribute lookup on the
\* helper object, then the call
HasScreenshotMethod == "save_debug_screenshot" \in HelperMethods

SaveDebugScreenshot(label) ==
    IF HasScreenshotMethod THEN [exc |-> "none", shots |-> shots \cup {label}]
    ELSE [exc |-> "AttributeError", shots |-> shots]

(* ------------------------- _login ----------------------------------- *)
LoginLabels == << "StaySignedIn", "OopsError", "CloudFlareVerification", "PromptTextarea" >>

\* the helper calls of _login_via_openai and of _login_via_microsoft
SubFlow ==
    [ OpenAI    |-> << "input", "click", "input", "click" >>,
      Microsoft |-> << "click", "input", "click", "input", "click" >> ]

\* _login returns; h is the record of the attempt so far
LoginReturnFrom(h, tag) ==
    /\ pc' = "idle"
    /\ op' = "none"
    /\ err' = "none"
    /\ hist' = [h EXCEPT !.log = Append(@, tag)]
    /\ UNCHANGED << attempt, loop_count, sub >>

LoginReturn(tag) == LoginReturnFrom(hist, tag)

\* exception e leaves the body of _login: the tenacity wrapper
\* (stop_after_attempt, retry_if_exception_message) decides what follows;
\* an exception that leaves _login is the caller's, and the driver is not
\* called again
LoginRaiseFrom(h, e, tag) ==
    /\ hist' = [h EXCEPT !.log = Append(@, tag), !.raised = Append(@, e),
                         !.entry = IF RetryIfOops(e) /\ attempt < LOGIN_ATTEMPTS
                                   THEN << >> ELSE @,
                         !.subRan = IF RetryIfOops(e) /\ attempt < LOGIN_ATTEMPTS
                                    THEN FALSE ELSE @,
                         !.signal = IF RetryIfOops(e) /\ attempt < LOGIN_ATTEMPTS
                                    THEN "" ELSE @]
    /\ IF RetryIfOops(e)
       THEN IF attempt < LOGIN_ATTEMPTS
            THEN /\ attempt' = attempt + 1
                 /\ pc' = "l_enter"
                 /\ loop_count' = 0
                 /\ sub' = 0
                 /\ UNCHANGED << op, err >>
            ELSE /\ pc' = "failed"
                 /\ op' = "none"
                 /\ err' = "RetryError"
                 /\ UNCHANGED << attempt, loop_count, sub >>
       ELSE /\ pc' = "failed"
            /\ op' = "none"
            /\ err' = e
            /\ UNCHANGED << attempt, loop_count, sub >>

LoginRaise(e, tag) == LoginRaiseFrom(hist, e, tag)

\* save_debug_screenshot(label), then raise e
LoginShotThenRaiseFrom(h, label, e, tag) ==
    LET s == SaveDebugScreenshot(label)
    IN /\ shots' = s.shots
       /\ LoginRaiseFrom(h, IF s.exc # "none" THEN s.exc ELSE e, tag)

LoginShotThenRaise(label, e, tag) == LoginShotThenRaiseFrom(hist, label, e, tag)

NeedsLoginAlways(welcome, login) == TRUE

\* the two login buttons of the status check: the second is looked for only
\* when the first was not found and clicked
NeedsLogin(welcome, login) ==
    \/ Click(FindElementOrFail(welcome, TRUE).val)
    \/ Click(FindElementOrFail(login, TRUE).val)

\* browser.refresh() / browser.get(): the page is loaded anew
LoginEnter ==
    /\ pc = "l_enter"
    /\ \E loaded \in BOOLEAN :
         IF loaded
         THEN /\ pc' = "l_check"
              /\ UNCHANGED << op, err, attempt, loop_count, sub, hist >>
         ELSE LoginRaise("Timeout", "Other")
    /\ promptText' = << >>
    /\ pending' = FALSE
    /\ docTurn' \in {BASELINE_TURN, docTurn}
    /\ UNCHANGED << login_type, last_turn, expected_turn, question, answer,
                    shots, clipboard, copyPending >>
    /\ UNCHANGED switchVars
    /\ UNCHANGED tempVars
    /\ UNCHANGED quit_ret
    /\ UNCHANGED helperVars
    /\ UNCHANGED serverVars
    /\ UNCHANGED lockVars

\* the login status check
LoginCheck ==
    /\ pc = "l_check"
    /\ \E welcome \in BOOLEAN, login \in BOOLEAN, textarea \in BOOLEAN :
         LET h == [hist EXCEPT !.entry = << welcome, login, textarea >>]
         IN IF NeedsLogin(welcome, login)
            THEN /\ pc' = "l_welcome"
                 /\ hist' = h
                 /\ UNCHANGED << op, err, attempt, loop_count, sub, shots >>
            ELSE IF FindElementOrFail(textarea, TRUE).val # "None"
                 THEN LoginReturnFrom(h, "Already") /\ UNCHANGED shots
                 ELSE LoginShotThenRaiseFrom(h, "LoginStatus-Error", "LoginStatus", "Unknown")
    /\ UNCHANGED << login_type, last_turn, expected_turn, question, answer >>
    /\ UNCHANGED remoteVars
    /\ UNCHANGED switchVars
    /\ UNCHANGED tempVars
    /\ UNCHANGED quit_ret
    /\ UNCHANGED helperVars
    /\ UNCHANGED serverVars
    /\ UNCHANGED lockVars

\* wait_until_appear of the 'Welcome back' label
LoginWelcome ==
    /\ pc = "l_welcome"
    /\ \E visible \in BOOLEAN :
         LET r == WaitUntilAppear(visible, FALSE)
         IN IF r.exc = "none"
            THEN /\ pc' = "l_sub"
                 /\ sub' = 1
                 /\ hist' = [hist EXCEPT !.subRan = TRUE]
                 /\ UNCHANGED << op, err, attempt, loop_count >>
            ELSE LoginRaise(r.exc, "Other")
    /\ UNCHANGED << login_type, last_turn, expected_turn, question, answer, shots >>
    /\ UNCHANGED remoteVars
    /\ UNCHANGED switchVars
    /\ UNCHANGED tempVars
    /\ UNCHANGED quit_ret
    /\ UNCHANGED helperVars
    /\ UNCHANGED serverVars
    /\ UNCHANGED lockVars

\* one helper call of the provider sub-flow
LoginSubFlow ==
    /\ pc = "l_sub"
    /\ \E found \in BOOLEAN :
         LET kind == SubFlow[login_type][sub]
             r    == IF kind = "input" THEN WaitUntilAppear(found, FALSE)
                     ELSE FindElementOrFail(found, FALSE)
         IN IF r.exc # "none" THEN LoginRaise(r.exc, "Other")
            ELSE /\ IF sub = Len(SubFlow[login_type])
                    THEN pc' = "l_loop" /\ sub' = 0 /\ loop_count' = 0
                    ELSE pc' = "l_sub" /\ sub' = sub + 1 /\ loop_count' = loop_count
                 /\ UNCHANGED << op, err, attempt, hist >>
    /\ UNCHANGED << login_type, last_turn, expected_turn, question, answer, shots >>
    /\ UNCHANGED remoteVars
    /\ UNCHANGED switchVars
    /\ UNCHANGED tempVars
    /\ UNCHANGED quit_ret
    /\ UNCHANGED helperVars
    /\ UNCHANGED serverVars
    /\ UNCHANGED lockVars

\* one iteration of the post-submission loop, up to the branch taken; the
\* for-else clause when the iterations are used up
LoginLoop ==
    /\ pc = "l_loop"
    /\ IF loop_count = LOGIN_MAX_TRIES
       THEN LoginShotThenRaise("MaxLoginRetriesMeet", "LoginMaxRetries", "Exhausted")
       ELSE \E visible \in SUBSET (1..4), present \in SUBSET (1..4) :
              LET r == WaitForMutuallyExclusive(LoginLabels, visible, present, FALSE)
                  h == [hist EXCEPT !.signal = r.val, !.stepClicks = 0]
              IN CASE r.exc # "none" ->
                        /\ LoginRaiseFrom([hist EXCEPT !.signal = ""], r.exc, "Other")
                        /\ UNCHANGED shots
                   [] r.exc = "none" /\ r.val = "StaySignedIn" /\ login_type = "Microsoft" ->
                        /\ pc' = "l_stay"
                        /\ sub' = 1
                        /\ hist' = h
                        /\ UNCHANGED << op, err, attempt, loop_count, shots >>
                   [] r.exc = "none" /\ r.val = "StaySignedIn" /\ login_type # "Microsoft" ->
                        /\ loop_count' = loop_count + 1
                        /\ hist' = h
                        /\ UNCHANGED << pc, op, err, attempt, sub, shots >>
                   [] r.exc = "none" /\ r.val = "OopsError" ->
                        LoginShotThenRaiseFrom(h, "OopsError", "Oops", "Oops")
                   [] r.exc = "none" /\ r.val = "CloudFlareVerification" ->
                        /\ pc' = "l_cf"
                        /\ hist' = h
                        /\ UNCHANGED << op, err, attempt, loop_count, sub, shots >>
                   [] r.exc = "none" /\ r.val = "PromptTextarea" ->
                        LoginReturnFrom(h, "Textarea") /\ UNCHANGED shots
                   [] r.exc = "none" /\ r.val = "None" ->
                        LoginShotThenRaiseFrom(h, "NoLabelFound", "LabelNotFound", "Other")
    /\ UNCHANGED << login_type, last_turn, expected_turn, question, answer >>
    /\ UNCHANGED remoteVars
    /\ UNCHANGED switchVars
    /\ UNCHANGED tempVars
    /\ UNCHANGED quit_ret
    /\ UNCHANGED helperVars
    /\ UNCHANGED serverVars
    /\ UNCHANGED lockVars

\* 'StaySignedIn': click the DontShowAgain checkbox, then the Yes button
LoginStaySignedIn ==
    /\ pc = "l_stay"
    /\ \E found \in BOOLEAN :
         LET r == FindElementOrFail(found, FALSE)
         IN IF r.exc # "none" THEN LoginRaise(r.exc, "Other")
            ELSE /\ IF sub = 2
                    THEN pc' = "l_loop" /\ sub' = 0 /\ loop_count' = loop_count + 1
                    ELSE pc' = "l_stay" /\ sub' = sub + 1 /\ loop_count' = loop_count
                 /\ hist' = [hist EXCEPT !.stepClicks = @ + 1]
                 /\ UNCHANGED << op, err, attempt >>
    /\ UNCHANGED << login_type, last_turn, expected_turn, question, answer, shots >>
    /\ UNCHANGED remoteVars
    /\ UNCHANGED switchVars
    /\ UNCHANGED tempVars
    /\ UNCHANGED quit_ret
    /\ UNCHANGED helperVars
    /\ UNCHANGED serverVars
    /\ UNCHANGED lockVars

\* 'CloudFlareVerification': click the verification element
LoginCloudFlare ==
    /\ pc = "l_cf"
    /\ \E found \in BOOLEAN :
         LET r == FindElementOrFail(found, FALSE)
         IN IF r.exc # "none" THEN LoginRaise(r.exc, "Other")
            ELSE /\ pc' = "l_loop"
                 /\ loop_count' = loop_count + 1
                 /\ hist' = [hist EXCEPT !.stepClicks = @ + 1]
                 /\ UNCHANGED << op, err, attempt, sub >>
    /\ UNCHANGED << login_type, last_turn, expected_turn, question, answer, shots >>
    /\ UNCHANGED remoteVars
    /\ UNCHANGED switchVars
    /\ UNCHANGED tempVars
    /\ UNCHANGED quit_ret
    /\ UNCHANGED helperVars
    /\ UNCHANGED serverVars
    /\ UNCHANGED lockVars

(* --------------------- facade: starting a call ---------------------- *)
\* hist of a new operation: the asks of the conversation are remembered
\* until a new conversation is started
StartHist(kind) ==
    [EmptyHist EXCEPT !.kind = kind,
                      !.prevAsk = IF kind = "new_chat" THEN 0 ELSE hist.prevAsk,
                      !.prevPrev = IF kind = "new_chat" THEN 0 ELSE hist.prevPrev]

\* chat(question) is called
StartChat ==
    /\ pc = "idle"
    /\ \E q \in Questions : question' = q
    /\ pc' = "c_textarea"
    /\ op' = "chat"
    /\ hist' = StartHist("chat")
    /\ err' = "none"
    /\ answer' = 0
    /\ loop_count' = 0
    /\ UNCHANGED << login_type, attempt, sub, last_turn, expected_turn, shots >>
    /\ UNCHANGED remoteVars
    /\ UNCHANGED switchVars
    /\ UNCHANGED tempVars
    /\ UNCHANGED quit_ret
    /\ UNCHANGED helperVars
    /\ UNCHANGED serverVars
    /\ UNCHANGED lockVars

\* regenerate() is called
StartRegenerate ==
    /\ pc = "idle"
    /\ pc' = "r_read"
    /\ op' = "regenerate"
    /\ hist' = StartHist("regenerate")
    /\ err' = "none"
    /\ answer' = 0
    /\ loop_count' = 0
    /\ UNCHANGED << login_type, attempt, sub, last_turn, expected_turn, question, shots >>
    /\ UNCHANGED remoteVars
    /\ UNCHANGED switchVars
    /\ UNCHANGED tempVars
    /\ UNCHANGED quit_ret
    /\ UNCHANGED helperVars
    /\ UNCHANGED serverVars
    /\ UNCHANGED lockVars

\* new_chat() is called
StartNewChat ==
    /\ pc = "idle"
    /\ pc' = "n_click"
    /\ op' = "new_chat"
    /\ hist' = StartHist("new_chat")
    /\ err' = "none"
    /\ answer' = 0
    /\ UNCHANGED << login_type, attempt, loop_count, sub, last_turn, expected_turn,
                    question, shots >>
    /\ UNCHANGED remoteVars
    /\ UNCHANGED switchVars
    /\ UNCHANGED tempVars
    /\ UNCHANGED quit_ret
    /\ UNCHANGED helperVars
    /\ UNCHANGED serverVars
    /\ UNCHANGED lockVars

\* an exception leaves chat / regenerate / new_chat; tag, when not "", is
\* what the running lifecycle iteration resolved
CallRaiseFrom(h, e, tag) ==
    /\ pc' = "failed"
    /\ op' = "none"
    /\ err' = e
    /\ hist' = IF tag = "" THEN h ELSE [h EXCEPT !.obs = Append(@, tag)]

CallRaise(e, tag) == CallRaiseFrom(hist, e, tag)

\* save_debug_screenshot(label), then raise e
CallShotThenRaise(label, e, tag) ==
    LET s == SaveDebugScreenshot(label)
    IN /\ shots' = s.shots
       /\ CallRaise(IF s.exc # "none" THEN s.exc ELSE e, tag)

(* ------------------------------ chat -------------------------------- *)
\* the content of the input surface ends with text
EndsWith(content, text) ==
    /\ Len(content) >= Len(text)
    /\ SubSeq(content, Len(content) - Len(text) + 1, Len(content)) = text

\* wait_until_appear of the prompt textarea
ChatTextarea ==
    /\ pc = "c_textarea"
    /\ \E visible \in BOOLEAN :
         LET r == WaitUntilAppear(visible, FALSE)
         IN IF r.exc = "none"
            THEN pc' = "c_read" /\ UNCHANGED << op, err, hist >>
            ELSE CallRaise(r.exc, "")
    /\ UNCHANGED progVars
    /\ UNCHANGED shots
    /\ UNCHANGED remoteVars
    /\ UNCHANGED switchVars
    /\ UNCHANGED tempVars
    /\ UNCHANGED quit_ret
    /\ UNCHANGED helperVars
    /\ UNCHANGED serverVars
    /\ UNCHANGED lockVars

\* the last assistant turn is read and expected_turn computed
ChatRead ==
    /\ pc = "c_read"
    /\ LET r == FindElementOrFail(LastAssistantTurnShown(docTurn), TRUE)
           last == IF r.val # "None" THEN docTurn ELSE BASELINE_TURN
       IN /\ last_turn' = last
          /\ expected_turn' = ExpectedTurnChat(last)
          /\ hist' = [hist EXCEPT !.read = TRUE,
                                  !.observed = IF r.val # "None" THEN docTurn ELSE 0]
    /\ pc' = "c_input"
    /\ UNCHANGED << op, err, login_type, attempt, loop_count, sub, question, answer, shots >>
    /\ UNCHANGED remoteVars
    /\ UNCHANGED switchVars
    /\ UNCHANGED tempVars
    /\ UNCHANGED quit_ret
    /\ UNCHANGED helperVars
    /\ UNCHANGED serverVars
    /\ UNCHANGED lockVars

\* find_then_input_or_fail of the question into the prompt textarea
ChatInput ==
    /\ pc = "c_input"
    /\ \E found \in BOOLEAN :
         LET r == FindElementOrFail(found, FALSE)
             c == InputContent(promptText, question, CHAT_INPUT_METHOD)
         IN IF r.exc # "none"
            THEN CallRaise(r.exc, "") /\ UNCHANGED promptText
            ELSE /\ InputReturns(r.val)
                 /\ promptText' = c
                 /\ hist' = [hist EXCEPT !.typed = EndsWith(c, question),
                                         !.inputReturned = InputReturns(r.val)]
                 /\ pc' = "c_disabled"
                 /\ UNCHANGED << op, err >>
    /\ UNCHANGED progVars
    /\ UNCHANGED << shots, docTurn, pending, clipboard, copyPending >>
    /\ UNCHANGED switchVars
    /\ UNCHANGED tempVars
    /\ UNCHANGED quit_ret
    /\ UNCHANGED helperVars
    /\ UNCHANGED serverVars
    /\ UNCHANGED lockVars

\* wait_until_disappear of the disabled send button
ChatSendDisabled ==
    /\ pc = "c_disabled"
    /\ \E gone \in BOOLEAN :
         LET r == WaitUntilDisappear(gone, FALSE)
         IN IF r.exc = "none"
            THEN /\ pc' = "c_send"
                 /\ hist' = [hist EXCEPT !.sendGone = TRUE]
                 /\ UNCHANGED << op, err >>
            ELSE CallRaise(r.exc, "")
    /\ UNCHANGED progVars
    /\ UNCHANGED shots
    /\ UNCHANGED remoteVars
    /\ UNCHANGED switchVars
    /\ UNCHANGED tempVars
    /\ UNCHANGED quit_ret
    /\ UNCHANGED helperVars
    /\ UNCHANGED serverVars
    /\ UNCHANGED lockVars

\* wait_until_appear_then_click of the enabled send button: the remote
\* takes the prompt and empties the input surface
ChatSend ==
    /\ pc = "c_send"
    /\ \E visible \in BOOLEAN :
         LET r == WaitUntilAppear(visible, FALSE)
         IN IF r.exc = "none"
            THEN /\ Click(r.val)
                 /\ pc' = "g_loop"
                 /\ hist' = [hist EXCEPT !.sendClick = TRUE, !.typedFirst = hist.typed]
                 /\ pending' = TRUE
                 /\ promptText' = << >>
                 /\ UNCHANGED << op, err >>
            ELSE CallRaise(r.exc, "") /\ UNCHANGED << pending, promptText >>
    /\ UNCHANGED progVars
    /\ UNCHANGED << shots, docTurn, clipboard, copyPending >>
    /\ UNCHANGED switchVars
    /\ UNCHANGED tempVars
    /\ UNCHANGED quit_ret
    /\ UNCHANGED helperVars
    /\ UNCHANGED serverVars
    /\ UNCHANGED lockVars

(* --------------------------- regenerate ----------------------------- *)
\* wait_until_appear of the last assistant turn; last_turn and
\* expected_turn are read from it
RegenRead ==
    /\ pc = "r_read"
    /\ \E visible \in BOOLEAN :
         /\ visible => LastAssistantTurnShown(docTurn)
         /\ LET r == WaitUntilAppear(visible, FALSE)
            IN IF r.exc = "none"
               THEN /\ last_turn' = docTurn
                    /\ expected_turn' = ExpectedTurnRegenerate(docTurn)
                    /\ hist' = [hist EXCEPT !.read = TRUE, !.observed = docTurn]
                    /\ pc' = "r_click"
                    /\ UNCHANGED << op, err >>
               ELSE /\ CallRaiseFrom([hist EXCEPT !.noTurn = ~LastAssistantTurnShown(docTurn)], r.exc, "")
                    /\ UNCHANGED << last_turn, expected_turn >>
    /\ UNCHANGED << login_type, attempt, loop_count, sub, question, answer, shots >>
    /\ UNCHANGED remoteVars
    /\ UNCHANGED switchVars
    /\ UNCHANGED tempVars
    /\ UNCHANGED quit_ret
    /\ UNCHANGED helperVars
    /\ UNCHANGED serverVars
    /\ UNCHANGED lockVars

\* find_then_click_or_fail of the regenerate button of the last turn
RegenClick ==
    /\ pc = "r_click"
    /\ \E found \in BOOLEAN :
         LET r == FindElementOrFail(found, FALSE)
         IN IF r.exc = "none"
            THEN /\ Click(r.val)
                 /\ pc' = "r_gone"
                 /\ hist' = [hist EXCEPT !.preClick = TRUE]
                 /\ UNCHANGED << op, err >>
            ELSE CallRaise(r.exc, "")
    /\ UNCHANGED progVars
    /\ UNCHANGED shots
    /\ UNCHANGED remoteVars
    /\ UNCHANGED switchVars
    /\ UNCHANGED tempVars
    /\ UNCHANGED quit_ret
    /\ UNCHANGED helperVars
    /\ UNCHANGED serverVars
    /\ UNCHANGED lockVars

\* wait_until_disappear of the old answer at expected_turn
RegenGone ==
    /\ pc = "r_gone"
    /\ \E gone \in BOOLEAN :
         LET r == WaitUntilDisappear(gone, FALSE)
         IN IF r.exc = "none"
            THEN /\ pc' = "g_loop"
                 /\ hist' = [hist EXCEPT !.oldGone = gone]
                 /\ UNCHANGED << op, err >>
            ELSE CallRaise(r.exc, "")
    /\ UNCHANGED progVars
    /\ UNCHANGED shots
    /\ UNCHANGED remoteVars
    /\ UNCHANGED switchVars
    /\ UNCHANGED tempVars
    /\ UNCHANGED quit_ret
    /\ UNCHANGED helperVars
    /\ UNCHANGED serverVars
    /\ UNCHANGED lockVars

(* ---------- generation lifecycle loop of chat and regenerate -------- *)
GenLabels == << "NormalMessage", "RegenerateButton" >>

\* the regenerate button is clicked inside the loop and the loop continues
GenRegenerateAndContinue(h, tag) ==
    LET s == SaveDebugScreenshot("RegenerateButton")
    IN /\ shots' = s.shots
       /\ IF s.exc # "none"
          THEN /\ pc' = "failed"
               /\ op' = "none"
               /\ err' = s.exc
               /\ hist' = [h EXCEPT !.obs = Append(@, tag)]
               /\ UNCHANGED loop_count
          ELSE /\ hist' = [h EXCEPT !.obs = Append(@, tag), !.clicks = @ + 1,
                                    !.stale = (tag = "LateRegenerate")]
               /\ loop_count' = loop_count + 1
               /\ pc' = "g_loop"
               /\ UNCHANGED << op, err >>

\* one iteration up to the branch taken: the wait over the normal message
\* at expected_turn and the regenerate button, then the 'RegenerateButton'
\* case, or the first step (scroll to bottom, failure ignored) of the
\* 'NormalMessage' case; the for-else clause when the iterations are used
\* up.  banner is whether an error banner is shown at expected_turn at that
\* instant; no locator of the wait looks at it.
GenLoop ==
    /\ pc = "g_loop"
    /\ IF loop_count = GEN_MAX_TRIES
       THEN /\ CallShotThenRaise("MaxRegenerateRetriesMeet", "RegenMaxRetries", "")
            /\ UNCHANGED loop_count
       ELSE \E visible \in SUBSET (1..2), present \in SUBSET (1..2), banner \in BOOLEAN,
               replaced \in BOOLEAN :
              /\ (1 \in visible \/ 1 \in present \/ banner)
                    => SpecifiedTurnShown(docTurn, expected_turn)
              /\ ~hist.stale => replaced
              /\ ~replaced => (1 \in visible /\ 1 \in present)
              /\ LET r == WaitForMutuallyExclusive(GenLabels, visible, present, FALSE)
                     h == [hist EXCEPT !.banner1 = IF loop_count = 0 THEN banner ELSE @,
                                       !.stale = ~replaced,
                                       !.staleNormal = ~replaced]
                 IN CASE r.exc # "none" ->
                           /\ pc' = "failed"
                           /\ op' = "none"
                           /\ err' = r.exc
                           /\ hist' = [h EXCEPT !.obs = Append(@, "WaitFailed")]
                           /\ UNCHANGED << loop_count, shots >>
                      [] r.exc = "none" /\ r.val = "NormalMessage" ->
                           /\ pc' = "g_stop"
                           /\ hist' = h
                           /\ UNCHANGED << op, err, loop_count, shots >>
                      [] r.exc = "none" /\ r.val = "RegenerateButton" ->
                           GenRegenerateAndContinue(h, "Regenerate")
    /\ UNCHANGED << login_type, attempt, sub, last_turn, expected_turn, question, answer >>
    /\ UNCHANGED remoteVars
    /\ UNCHANGED switchVars
    /\ UNCHANGED tempVars
    /\ UNCHANGED quit_ret
    /\ UNCHANGED helperVars
    /\ UNCHANGED serverVars
    /\ UNCHANGED lockVars

\* 'NormalMessage': wait_until_disappear of the stop button
GenStop ==
    /\ pc = "g_stop"
    /\ \E gone \in BOOLEAN :
         LET r == WaitUntilDisappear(gone, FALSE)
         IN IF r.exc = "none"
            THEN pc' = "g_regen" /\ UNCHANGED << op, err, hist >>
            ELSE CallRaise(r.exc, "StopTimeout")
    /\ UNCHANGED progVars
    /\ UNCHANGED shots
    /\ UNCHANGED remoteVars
    /\ UNCHANGED switchVars
    /\ UNCHANGED tempVars
    /\ UNCHANGED quit_ret
    /\ UNCHANGED helperVars
    /\ UNCHANGED serverVars
    /\ UNCHANGED lockVars

\* 'NormalMessage': the regenerate button is looked for after completion
GenCheckRegenerate ==
    /\ pc = "g_regen"
    /\ \E found \in BOOLEAN :
         LET r == FindElementOrFail(found, TRUE)
         IN IF r.val # "None"
            THEN GenRegenerateAndContinue(hist, "LateRegenerate")
            ELSE /\ pc' = "g_error"
                 /\ UNCHANGED << op, err, hist, loop_count, shots >>
    /\ UNCHANGED << login_type, attempt, sub, last_turn, expected_turn, question, answer >>
    /\ UNCHANGED remoteVars
    /\ UNCHANGED switchVars
    /\ UNCHANGED tempVars
    /\ UNCHANGED quit_ret
    /\ UNCHANGED helperVars
    /\ UNCHANGED serverVars
    /\ UNCHANGED lockVars

\* 'NormalMessage': the error message of the last turn is looked for; the
\* loop is left when there is none
GenCheckError ==
    /\ pc = "g_error"
    /\ \E found \in BOOLEAN :
         LET r == FindElementOrFail(found, TRUE)
         IN IF r.val # "None"
            THEN CallShotThenRaise("ConversationErrorMessage-2", "GenError", "LateError")
            ELSE /\ pc' = "a_wait"
                 /\ hist' = [hist EXCEPT !.obs = Append(@, "Normal"),
                                         !.exitIter = loop_count + 1]
                 /\ UNCHANGED << op, err, shots >>
    /\ UNCHANGED progVars
    /\ UNCHANGED remoteVars
    /\ UNCHANGED switchVars
    /\ UNCHANGED tempVars
    /\ UNCHANGED quit_ret
    /\ UNCHANGED helperVars
    /\ UNCHANGED serverVars
    /\ UNCHANGED lockVars

(* ------------------------ answer extraction ------------------------- *)
\* wait_until_appear of the answer at expected_turn, then scroll to bottom
\* (failure ignored)
AnswerWait ==
    /\ pc = "a_wait"
    /\ \E visible \in BOOLEAN :
         /\ visible => SpecifiedTurnShown(docTurn, expected_turn)
         /\ LET r == WaitUntilAppear(visible, FALSE)
            IN IF r.exc = "none"
               THEN /\ pc' = "a_clear"
                    /\ hist' = [hist EXCEPT !.target = expected_turn]
                    /\ UNCHANGED << op, err >>
               ELSE CallRaise(r.exc, "")
    /\ UNCHANGED progVars
    /\ UNCHANGED shots
    /\ UNCHANGED remoteVars
    /\ UNCHANGED switchVars
    /\ UNCHANGED tempVars
    /\ UNCHANGED quit_ret
    /\ UNCHANGED helperVars
    /\ UNCHANGED serverVars
    /\ UNCHANGED lockVars

PyperclipCopyNothing(text) == clipboard

\* pyperclip.copy(text): the clipboard afterwards
PyperclipCopy(text) == text

\* _copy_answer_to_clipboard: pyperclip.copy('')
CopyClear ==
    /\ pc = "a_clear"
    /\ clipboard' = PyperclipCopy(0)
    /\ pc' = "a_click"
    /\ hist' = [hist EXCEPT !.cleared = TRUE]
    /\ UNCHANGED << op, err, shots, docTurn, pending, promptText, copyPending >>
    /\ UNCHANGED progVars
    /\ UNCHANGED switchVars
    /\ UNCHANGED tempVars
    /\ UNCHANGED quit_ret
    /\ UNCHANGED helperVars
    /\ UNCHANGED serverVars
    /\ UNCHANGED lockVars

\* _copy_answer_to_clipboard: the copy button of the last assistant turn
CopyClick ==
    /\ pc = "a_click"
    /\ \E found \in BOOLEAN :
         /\ found => LastAssistantTurnShown(docTurn)
         /\ LET r == FindElementOrFail(found, FALSE)
            IN IF r.exc = "none"
               THEN /\ Click(r.val)
                    /\ copyPending' = TRUE
                    /\ hist' = [hist EXCEPT !.copied = docTurn,
                                            !.clickAfterClear = hist.cleared]
                    /\ pc' = "a_poll"
                    /\ UNCHANGED << op, err >>
               ELSE CallRaise(r.exc, "") /\ UNCHANGED copyPending
    /\ UNCHANGED progVars
    /\ UNCHANGED << shots, docTurn, pending, promptText, clipboard >>
    /\ UNCHANGED switchVars
    /\ UNCHANGED tempVars
    /\ UNCHANGED quit_ret
    /\ UNCHANGED helperVars
    /\ UNCHANGED serverVars
    /\ UNCHANGED lockVars

PollForever(value) == TRUE

\* _copy_answer_to_clipboard: `while (answer := pyperclip.paste()) == ''`
PollAgain(value) == value = 0

\* _copy_answer_to_clipboard: one pyperclip.paste() of the poll; the call
\* returns the answer when the clipboard is not empty
CopyPoll ==
    /\ pc = "a_poll"
    /\ IF PollAgain(clipboard)
       THEN UNCHANGED << pc, op, err, answer, hist >>
       ELSE /\ answer' = clipboard
            /\ pc' = "idle"
            /\ op' = "none"
            /\ err' = "none"
            /\ hist' = IF op = "chat"
                       THEN [hist EXCEPT !.prevAsk = last_turn, !.prevPrev = hist.prevAsk]
                       ELSE hist
    /\ UNCHANGED << login_type, attempt, loop_count, sub, last_turn, expected_turn,
                    question, shots >>
    /\ UNCHANGED remoteVars
    /\ UNCHANGED switchVars
    /\ UNCHANGED tempVars
    /\ UNCHANGED quit_ret
    /\ UNCHANGED helperVars
    /\ UNCHANGED serverVars
    /\ UNCHANGED lockVars

(* --------------------------- switch_model --------------------------- *)
\* switch_model(target_model) is called
StartSwitchModel ==
    /\ pc = "idle"
    /\ \E t \in TargetModels :
         /\ target_model' = t
         /\ hist' = [StartHist("switch_model") EXCEPT
                        !.again = /\ hist.kind = "switch_model"
                                  /\ target_model = t
                                  /\ hist.uiClicks = 2]
    /\ pc' = "m_current"
    /\ op' = "switch_model"
    /\ err' = "none"
    /\ answer' = 0
    /\ UNCHANGED << login_type, attempt, loop_count, sub, last_turn, expected_turn,
                    question, shots, displayed, menuOpen >>
    /\ UNCHANGED remoteVars
    /\ UNCHANGED tempVars
    /\ UNCHANGED quit_ret
    /\ UNCHANGED helperVars
    /\ UNCHANGED serverVars
    /\ UNCHANGED lockVars

\* _get_current_model, and the comparison with target_model
SwitchGetCurrent ==
    /\ pc = "m_current"
    /\ \E found \in BOOLEAN :
         LET r     == FindElementOrFail(found, FALSE)
             model == CurrentModelName(displayed)
         IN IF r.exc # "none" THEN CallRaise(r.exc, "")
            ELSE IF model \notin ModelNames THEN CallRaise("UnexpectedModel", "")
            ELSE /\ hist' = [hist EXCEPT !.current = model, !.shownAtRead = displayed]
                 /\ err' = "none"
                 /\ IF ModelAlreadySet(target_model, model)
                    THEN pc' = "idle" /\ op' = "none"
                    ELSE pc' = "m_menu" /\ op' = op
    /\ UNCHANGED progVars
    /\ UNCHANGED shots
    /\ UNCHANGED remoteVars
    /\ UNCHANGED switchVars
    /\ UNCHANGED tempVars
    /\ UNCHANGED quit_ret
    /\ UNCHANGED helperVars
    /\ UNCHANGED serverVars
    /\ UNCHANGED lockVars

\* wait_until_appear_then_click of the model menu
SwitchOpenMenu ==
    /\ pc = "m_menu"
    /\ \E visible \in BOOLEAN :
         LET r == WaitUntilAppear(visible, FALSE)
         IN IF r.exc = "none"
            THEN /\ Click(r.val)
                 /\ menuOpen' = TRUE
                 /\ hist' = [hist EXCEPT !.uiClicks = @ + 1]
                 /\ pc' = "m_items"
                 /\ UNCHANGED << op, err >>
            ELSE CallRaise(r.exc, "") /\ UNCHANGED menuOpen
    /\ UNCHANGED progVars
    /\ UNCHANGED shots
    /\ UNCHANGED remoteVars
    /\ UNCHANGED << target_model, displayed >>
    /\ UNCHANGED tempVars
    /\ UNCHANGED quit_ret
    /\ UNCHANGED helperVars
    /\ UNCHANGED serverVars
    /\ UNCHANGED lockVars

\* wait_until_appear of a menu item
SwitchWaitItems ==
    /\ pc = "m_items"
    /\ \E visible \in BOOLEAN :
         /\ visible => menuOpen
         /\ LET r == WaitUntilAppear(visible, FALSE)
            IN IF r.exc = "none"
               THEN pc' = "m_names" /\ UNCHANGED << op, err, hist >>
               ELSE CallRaise(r.exc, "")
    /\ UNCHANGED progVars
    /\ UNCHANGED shots
    /\ UNCHANGED remoteVars
    /\ UNCHANGED switchVars
    /\ UNCHANGED tempVars
    /\ UNCHANGED quit_ret
    /\ UNCHANGED helperVars
    /\ UNCHANGED serverVars
    /\ UNCHANGED lockVars

\* MODEL_NAMES is read from the menu items and target_model asserted in it
SwitchModelNames ==
    /\ pc = "m_names"
    /\ \E MODEL_NAMES \in SUBSET ModelNames :
         LET h == [hist EXCEPT !.enumerated = TRUE, !.names = MODEL_NAMES]
         IN IF target_model \in MODEL_NAMES
            THEN pc' = "m_click" /\ hist' = h /\ UNCHANGED << op, err >>
            ELSE CallRaiseFrom(h, "InvalidModelName", "")
    /\ UNCHANGED progVars
    /\ UNCHANGED shots
    /\ UNCHANGED remoteVars
    /\ UNCHANGED switchVars
    /\ UNCHANGED tempVars
    /\ UNCHANGED quit_ret
    /\ UNCHANGED helperVars
    /\ UNCHANGED serverVars
    /\ UNCHANGED lockVars

\* find_then_click_or_fail of the menu item of target_model: the remote
\* closes the menu and displays the model it switched to, if it did
SwitchClickItem ==
    /\ pc = "m_click"
    /\ \E found \in BOOLEAN :
         LET r == FindElementOrFail(found, FALSE)
         IN IF r.exc = "none"
            THEN /\ Click(r.val)
                 /\ \E d \in DisplayedNames :
                      /\ d = displayed \/ CurrentModelName(d) = target_model
                      /\ displayed' = d
                 /\ menuOpen' = FALSE
                 /\ hist' = [hist EXCEPT !.uiClicks = @ + 1]
                 /\ pc' = "idle"
                 /\ op' = "none"
                 /\ err' = "none"
            ELSE CallRaise(r.exc, "") /\ UNCHANGED << displayed, menuOpen >>
    /\ UNCHANGED progVars
    /\ UNCHANGED shots
    /\ UNCHANGED remoteVars
    /\ UNCHANGED target_model
    /\ UNCHANGED tempVars
    /\ UNCHANGED quit_ret
    /\ UNCHANGED helperVars
    /\ UNCHANGED serverVars
    /\ UNCHANGED lockVars

(* ---------------------- switch_temporary_mode ----------------------- *)
\* switch_temporary_mode(target_mode) is called
StartSwitchTemporaryMode ==
    /\ pc = "idle"
    /\ target_mode' \in BOOLEAN
    /\ hist' = StartHist("switch_temporary_mode")
    /\ pc' = "t_current"
    /\ op' = "switch_temporary_mode"
    /\ err' = "none"
    /\ answer' = 0
    /\ UNCHANGED << login_type, attempt, loop_count, sub, last_turn, expected_turn,
                    question, shots, temporary >>
    /\ UNCHANGED remoteVars
    /\ UNCHANGED switchVars
    /\ UNCHANGED quit_ret
    /\ UNCHANGED helperVars
    /\ UNCHANGED serverVars
    /\ UNCHANGED lockVars

\* _get_current_temporary_mode, and the comparison with target_mode
TempGetCurrent ==
    /\ pc = "t_current"
    /\ \E url \in BOOLEAN, found1 \in BOOLEAN, found2 \in BOOLEAN :
         LET is_temporary ==
                 CurrentTemporaryMode(url,
                                      FindElementOrFail(found1, TRUE).val # "None",
                                      FindElementOrFail(found2, TRUE).val # "None")
         IN /\ hist' = [hist EXCEPT !.modeRead = TRUE,
                                    !.is_temporary = is_temporary,
                                    !.tempAtRead = temporary,
                                    !.menuAtRead = menuOpen]
            /\ err' = "none"
            /\ IF TemporaryModeAlreadySet(is_temporary, target_mode)
               THEN pc' = "idle" /\ op' = "none"
               ELSE pc' = "t_menu" /\ op' = op
    /\ UNCHANGED progVars
    /\ UNCHANGED shots
    /\ UNCHANGED remoteVars
    /\ UNCHANGED switchVars
    /\ UNCHANGED tempVars
    /\ UNCHANGED quit_ret
    /\ UNCHANGED helperVars
    /\ UNCHANGED serverVars
    /\ UNCHANGED lockVars

\* wait_until_appear_then_click of the model menu
TempOpenMenu ==
    /\ pc = "t_menu"
    /\ \E visible \in BOOLEAN :
         LET r == WaitUntilAppear(visible, FALSE)
         IN IF r.exc = "none"
            THEN /\ Click(r.val)
                 /\ menuOpen' = TRUE
                 /\ hist' = [hist EXCEPT !.uiClicks = @ + 1]
                 /\ pc' = "t_switch"
                 /\ UNCHANGED << op, err >>
            ELSE CallRaise(r.exc, "") /\ UNCHANGED menuOpen
    /\ UNCHANGED progVars
    /\ UNCHANGED shots
    /\ UNCHANGED remoteVars
    /\ UNCHANGED << target_model, displayed >>
    /\ UNCHANGED tempVars
    /\ UNCHANGED quit_ret
    /\ UNCHANGED helperVars
    /\ UNCHANGED serverVars
    /\ UNCHANGED lockVars

\* wait_until_appear_then_click of the 'Temporary Mode' switch of the menu:
\* the remote flips the mode and closes the menu
TempClickSwitch ==
    /\ pc = "t_switch"
    /\ \E visible \in BOOLEAN :
         /\ visible => menuOpen
         /\ LET r == WaitUntilAppear(visible, FALSE)
            IN IF r.exc = "none"
               THEN /\ Click(r.val)
                    /\ temporary' = ~temporary
                    /\ menuOpen' = FALSE
                    /\ hist' = [hist EXCEPT !.toggles = @ + 1]
                    /\ pc' = "idle"
                    /\ op' = "none"
                    /\ err' = "none"
               ELSE CallRaise(r.exc, "") /\ UNCHANGED << temporary, menuOpen >>
    /\ UNCHANGED progVars
    /\ UNCHANGED shots
    /\ UNCHANGED remoteVars
    /\ UNCHANGED << target_model, displayed, target_mode >>
    /\ UNCHANGED quit_ret
    /\ UNCHANGED helperVars
    /\ UNCHANGED serverVars
    /\ UNCHANGED lockVars

(* ------------------------------- quit -------------------------------- *)
\* quit() is called on the object, after an operation has returned or raised
\* or after an earlier quit(); browser.quit() raises or not
Quit ==
    /\ pc \in {"idle", "failed", "quit"}
    /\ hist.kind = "quit" => hist.quits < MaxQuits
    /\ \E raised \in BOOLEAN :
         LET r == QuitResult(raised)
             n == IF hist.kind = "quit" THEN hist.quits ELSE 0
         IN /\ quit_ret' = r.val
            /\ err' = r.exc
            /\ pc' = IF r.exc = "none" THEN "quit" ELSE "failed"
            /\ hist' = [StartHist("quit") EXCEPT !.quits = n + 1,
                                                 !.quitRaised = raised]
    /\ op' = "none"
    /\ answer' = 0
    /\ UNCHANGED << login_type, attempt, loop_count, sub, last_turn, expected_turn,
                    question, shots >>
    /\ UNCHANGED remoteVars
    /\ UNCHANGED switchVars
    /\ UNCHANGED tempVars
    /\ UNCHANGED helperVars
    /\ UNCHANGED serverVars
    /\ UNCHANGED lockVars

(* ----------------------------- new_chat ----------------------------- *)
\* wait_until_appear_then_click of the new-chat button: the remote opens an
\* empty conversation
NewChatClick ==
    /\ pc = "n_click"
    /\ \E visible \in BOOLEAN :
         LET r == WaitUntilAppear(visible, FALSE)
         IN IF r.exc = "none"
            THEN /\ Click(r.val)
                 /\ pc' = "n_wait"
                 /\ docTurn' = BASELINE_TURN
                 /\ pending' = FALSE
                 /\ promptText' = << >>
                 /\ UNCHANGED << op, err, hist >>
            ELSE CallRaise(r.exc, "") /\ UNCHANGED << docTurn, pending, promptText >>
    /\ UNCHANGED progVars
    /\ UNCHANGED << shots, clipboard, copyPending >>
    /\ UNCHANGED switchVars
    /\ UNCHANGED tempVars
    /\ UNCHANGED quit_ret
    /\ UNCHANGED helperVars
    /\ UNCHANGED serverVars
    /\ UNCHANGED lockVars

\* wait_until_appear of the prompt textarea
NewChatWait ==
    /\ pc = "n_wait"
    /\ \E visible \in BOOLEAN :
         LET r == WaitUntilAppear(visible, FALSE)
         IN IF r.exc = "none"
            THEN pc' = "idle" /\ op' = "none" /\ err' = "none" /\ UNCHANGED hist
            ELSE CallRaise(r.exc, "")
    /\ UNCHANGED progVars
    /\ UNCHANGED shots
    /\ UNCHANGED remoteVars
    /\ UNCHANGED switchVars
    /\ UNCHANGED tempVars
    /\ UNCHANGED quit_ret
    /\ UNCHANGED helperVars
    /\ UNCHANGED serverVars
    /\ UNCHANGED lockVars

(* ------------------------- remote document -------------------------- *)
\* the remote adds the user turn and the assistant turn of a sent prompt
DocGrow ==
    /\ pending
    /\ docTurn + 2 <= BASELINE_TURN + 2 * MaxPrompts
    /\ docTurn' = docTurn + 2
    /\ pending' = FALSE
    /\ UNCHANGED << pc, op, err, hist, shots, promptText, clipboard, copyPending >>
    /\ UNCHANGED progVars
    /\ UNCHANGED switchVars
    /\ UNCHANGED tempVars
    /\ UNCHANGED quit_ret
    /\ UNCHANGED helperVars
    /\ UNCHANGED serverVars
    /\ UNCHANGED lockVars

\* the remote writes the answer of the turn whose copy button was clicked
ClipboardWrite ==
    /\ copyPending
    /\ clipboard' = hist.copied
    /\ copyPending' = FALSE
    /\ hist' = [hist EXCEPT !.fresh = hist.cleared]
    /\ UNCHANGED << pc, op, err, shots, docTurn, pending, promptText >>
    /\ UNCHANGED progVars
    /\ UNCHANGED switchVars
    /\ UNCHANGED tempVars
    /\ UNCHANGED quit_ret
    /\ UNCHANGED helperVars
    /\ UNCHANGED serverVars
    /\ UNCHANGED lockVars

(* ----------------- helper primitives called on their own ------------- *)
\* the arguments a caller gives and the documents a call is made on
CheckPeriods == {1, 2}

ConfirmationTimes == {2, 3}

Contents == {"a", "b"}

LocatorStates == {"absent", "hidden", "visible"}

HelperFunctions ==
    { "find_element_or_fail", "wait_until_appear", "wait_until_disappear",
      "wait_for_mutually_exclusive_elements", "check_element_stability" }

\* the labels given to wait_for_mutually_exclusive_elements, one per locator
HelperLabels == [i \in 1..NLocators |-> ToString(i)]

\* what selenium resolves on the document: find_element finds an element
\* that is in the document, visibility_of_element_located one that is
\* displayed as well
PresentLocators == {i \in 1..NLocators : h_doc[i] # "absent"}

VisibleLocators == {i \in 1..NLocators : h_doc[i] = "visible"}

\* the locators a call is given: wait_for_mutually_exclusive_elements takes
\* a list of queries, every other primitive one query
LocatorsOf(fn) ==
    IF fn = "wait_for_mutually_exclusive_elements" THEN 1..NLocators ELSE {1}

HelperInit ==
    /\ DriverInit
    /\ login_type = "OpenAI"
    /\ clipboard = 0
    /\ ServerIdle
    /\ LockIdle
    /\ h_fn \in HelperFunctions
    /\ h_ignore \in BOOLEAN
    /\ h_doc \in [1..NLocators -> LocatorStates]
    /\ \A i \in (1..NLocators) \ LocatorsOf(h_fn) : h_doc[i] = "absent"
    /\ h_pc = IF h_fn = "check_element_stability" THEN "poll" ELSE "call"
    /\ h_out = [val |-> "None", exc |-> "none"]
    /\ h_elem = 0
    /\ h_seen = {}
    /\ h_changes = 0
    /\ check_period \in (IF h_fn = "check_element_stability" THEN CheckPeriods ELSE {1})
    /\ confirmation_time \in (IF h_fn = "check_element_stability" THEN ConfirmationTimes ELSE {1})
    /\ last_content = "None"
    /\ stability_start_time = 0
    /\ now = 1
    /\ wake = 0
    /\ innerHTML \in (IF h_fn = "check_element_stability" THEN Contents ELSE {"a"})
    /\ mutations = 0
    /\ lastMut = 0
    /\ obsLog = << >>

\* the primitive returns or raises r; i is the locator of a returned element
HelperDone(r, i) ==
    /\ h_out' = r
    /\ h_elem' = i
    /\ h_pc' = "done"

stabilityVars == << check_period, confirmation_time, last_content,
                    stability_start_time, now, wake, innerHTML, mutations,
                    lastMut, obsLog >>

\* find_element_or_fail(by, query, ignore_failure)
FindElementOrFailCall ==
    /\ h_fn = "find_element_or_fail"
    /\ h_pc = "call"
    /\ LET r == FindElementOrFail(1 \in PresentLocators, h_ignore)
       IN HelperDone(r, IF r.val = "Element" THEN 1 ELSE 0)
    /\ UNCHANGED << h_fn, h_ignore, h_doc, h_seen, h_changes >>
    /\ UNCHANGED stabilityVars
    /\ UNCHANGED driverVars
    /\ UNCHANGED serverVars
    /\ UNCHANGED lockVars

\* wait_until_appear(by, query, ignore_timeout): it times out when the
\* element is not visible
WaitUntilAppearCall ==
    /\ h_fn = "wait_until_appear"
    /\ h_pc = "call"
    /\ LET r == WaitUntilAppear(1 \in VisibleLocators, h_ignore)
       IN HelperDone(r, IF r.val = "Element" THEN 1 ELSE 0)
    /\ UNCHANGED << h_fn, h_ignore, h_doc, h_seen, h_changes >>
    /\ UNCHANGED stabilityVars
    /\ UNCHANGED driverVars
    /\ UNCHANGED serverVars
    /\ UNCHANGED lockVars

\* wait_until_disappear(by, query, ignore_timeout): it times out when the
\* element is visible
WaitUntilDisappearCall ==
    /\ h_fn = "wait_until_disappear"
    /\ h_pc = "call"
    /\ HelperDone(WaitUntilDisappear(1 \notin VisibleLocators, h_ignore), 0)
    /\ UNCHANGED << h_fn, h_ignore, h_doc, h_seen, h_changes >>
    /\ UNCHANGED stabilityVars
    /\ UNCHANGED driverVars
    /\ UNCHANGED serverVars
    /\ UNCHANGED lockVars

\* wait_for_mutually_exclusive_elements: the WebDriverWait over any_of
\* the visibility conditions; it times out when no locator is visible
WaitForMutuallyExclusiveWait ==
    /\ h_fn = "wait_for_mutually_exclusive_elements"
    /\ h_pc = "call"
    /\ h_seen' = VisibleLocators
    /\ IF VisibleLocators = {}
       THEN HelperDone(WaitForMutuallyExclusive(HelperLabels, {}, {}, h_ignore), 0)
       ELSE h_pc' = "resolve" /\ UNCHANGED << h_out, h_elem >>
    /\ UNCHANGED << h_fn, h_ignore, h_doc, h_changes >>
    /\ UNCHANGED stabilityVars
    /\ UNCHANGED driverVars
    /\ UNCHANGED serverVars
    /\ UNCHANGED lockVars

\* wait_for_mutually_exclusive_elements: the find_element loop over the
\* queries, on the document as it is by then
WaitForMutuallyExclusiveResolve ==
    /\ h_fn = "wait_for_mutually_exclusive_elements"
    /\ h_pc = "resolve"
    /\ LET r == WaitForMutuallyExclusive(HelperLabels, h_seen, PresentLocators, h_ignore)
       IN HelperDone(r, IF r.exc = "none" /\ r.val # "None"
                        THEN FirstPresent(HelperLabels, PresentLocators) ELSE 0)
    /\ UNCHANGED << h_fn, h_ignore, h_doc, h_seen, h_changes >>
    /\ UNCHANGED stabilityVars
    /\ UNCHANGED driverVars
    /\ UNCHANGED serverVars
    /\ UNCHANGED lockVars

\* time.sleep(check_period) at the end of an iteration
StabilitySleepFrom(last, start, html, muts, mut, log) ==
    /\ last_content' = last
    /\ stability_start_time' = start
    /\ innerHTML' = html
    /\ mutations' = muts
    /\ lastMut' = mut
    /\ obsLog' = log
    /\ wake' = now + check_period
    /\ h_pc' = "sleep"
    /\ UNCHANGED << h_out, h_elem >>

\* check_element_stability: one iteration of its loop, up to the sleep.
\* reread is the innerHTML the read after the window returns: the element
\* may have changed since the read at the top of the iteration
CheckElementStabilityPoll ==
    /\ h_fn = "check_element_stability"
    /\ h_pc = "poll"
    /\ LET r   == WaitUntilAppear(1 \in VisibleLocators, h_ignore)
           log == Append(obsLog, << now, innerHTML >>)
       IN IF r.exc # "none"
          THEN /\ HelperDone(StabilityOnTimeout(h_ignore), 0)
               /\ UNCHANGED << last_content, stability_start_time, wake,
                               innerHTML, mutations, lastMut, obsLog >>
          ELSE IF r.val = "None"
          THEN /\ HelperDone(Raise("NoneType"), 0)
               /\ UNCHANGED << last_content, stability_start_time, wake,
                               innerHTML, mutations, lastMut, obsLog >>
          ELSE IF innerHTML # last_content
          THEN StabilitySleepFrom(innerHTML, now, innerHTML, mutations, lastMut, log)
          ELSE IF StabilityConfirmed(stability_start_time, now, confirmation_time)
          THEN \E reread \in Contents :
                 /\ reread # innerHTML => mutations < MaxMutations
                 /\ IF FinalReadUnchanged(reread, last_content)
                    THEN /\ HelperDone(Ret("Element"), 1)
                         /\ obsLog' = Append(log, << now, reread >>)
                         /\ UNCHANGED << last_content, stability_start_time,
                                         wake, innerHTML, mutations, lastMut >>
                    ELSE \* last_content = element.get_attribute('innerHTML'):
                         \* one more read, of a content that may have changed
                         \* again
                         \E third \in Contents :
                           LET muts == IF third # reread THEN mutations + 2
                                       ELSE mutations + 1
                           IN /\ muts <= MaxMutations
                              /\ StabilitySleepFrom(third, now, third, muts, now,
                                    Append(Append(log, << now, reread >>),
                                           << now, third >>))
          ELSE StabilitySleepFrom(last_content, stability_start_time, innerHTML,
                                  mutations, lastMut, log)
    /\ UNCHANGED << h_fn, h_ignore, h_doc, h_seen, h_changes >>
    /\ UNCHANGED << check_period, confirmation_time, now >>
    /\ UNCHANGED driverVars
    /\ UNCHANGED serverVars
    /\ UNCHANGED lockVars

\* a second of time.sleep(check_period) passes
CheckElementStabilitySleep ==
    /\ h_fn = "check_element_stability"
    /\ h_pc = "sleep"
    /\ now < MaxTime
    /\ now' = now + 1
    /\ h_pc' = IF now + 1 >= wake THEN "poll" ELSE "sleep"
    /\ UNCHANGED << h_fn, h_ignore, h_doc, h_out, h_elem, h_seen, h_changes >>
    /\ UNCHANGED << check_period, confirmation_time, last_content,
                    stability_start_time, wake, innerHTML, mutations, lastMut,
                    obsLog >>
    /\ UNCHANGED driverVars
    /\ UNCHANGED serverVars
    /\ UNCHANGED lockVars

\* remote: the content of the polled element changes
FeedMutate ==
    /\ h_fn = "check_element_stability"
    /\ h_pc \in {"poll", "sleep"}
    /\ mutations < MaxMutations
    /\ \E c \in Contents \ {innerHTML} : innerHTML' = c
    /\ mutations' = mutations + 1
    /\ lastMut' = now
    /\ UNCHANGED << h_fn, h_ignore, h_doc, h_pc, h_out, h_elem, h_seen, h_changes >>
    /\ UNCHANGED << check_period, confirmation_time, last_content,
                    stability_start_time, now, wake, obsLog >>
    /\ UNCHANGED driverVars
    /\ UNCHANGED serverVars
    /\ UNCHANGED lockVars

\* remote: an element is added to the document, removed from it, shown or
\* hidden while a primitive is between two looks at the document
HelperDocChange ==
    /\ h_fn \in HelperFunctions
    /\ h_pc \in {"resolve", "sleep"}
    /\ h_changes < MaxDocChanges
    /\ \E i \in LocatorsOf(h_fn), st \in LocatorStates :
         /\ st # h_doc[i]
         /\ h_doc' = [h_doc EXCEPT ![i] = st]
    /\ h_changes' = h_changes + 1
    /\ UNCHANGED << h_fn, h_ignore, h_pc, h_out, h_elem, h_seen >>
    /\ UNCHANGED stabilityVars
    /\ UNCHANGED driverVars
    /\ UNCHANGED serverVars
    /\ UNCHANGED lockVars

HelperNext ==
    \/ FindElementOrFailCall
    \/ WaitUntilAppearCall
    \/ WaitUntilDisappearCall
    \/ WaitForMutuallyExclusiveWait
    \/ WaitForMutuallyExclusiveResolve
    \/ CheckElementStabilityPoll
    \/ CheckElementStabilitySleep
    \/ FeedMutate
    \/ HelperDocChange

HelperSpec == HelperInit /\ [][HelperNext]_vars

(* --------------------------- specification -------------------------- *)
(* ================= _replace_api_key across processes ================= *)
\* lock_path = os.path.abspath(".file_lock"): the lock file of a process is
\* the one of its working directory
LockPath(cwd) == cwd

\* the processes are started, each in a directory and with a key; the config
\* file holds a key or no apiKey entry
LockInit ==
    /\ DriverInit
    /\ login_type = "OpenAI"
    /\ clipboard = 0
    /\ displayed = "4o"
    /\ HelperIdle
    /\ ServerIdle
    /\ proc_cwd \in [1..NProcesses -> Directories]
    /\ proc_key \in [1..NProcesses -> ApiKeys]
    /\ proc_pc = [p \in 1..NProcesses |-> "start"]
    /\ proc_content = [p \in 1..NProcesses |-> "unread"]
    /\ proc_exc = [p \in 1..NProcesses |-> "none"]
    /\ file_lock = [d \in Directories |-> 0]
    /\ config \in ApiKeys \cup {"nokey"}

\* `with lock`: the lock is acquired
AcquireLock ==
    /\ \E p \in 1..NProcesses :
         /\ proc_pc[p] = "start"
         /\ file_lock[LockPath(proc_cwd[p])] = 0
         /\ file_lock' = [file_lock EXCEPT ![LockPath(proc_cwd[p])] = p]
         /\ proc_pc' = [proc_pc EXCEPT ![p] = "locked"]
    /\ UNCHANGED << proc_cwd, proc_key, proc_content, proc_exc, config >>
    /\ UNCHANGED << driverVars, helperVars, serverVars >>

\* `with lock` raises Timeout after timeout=1 with the lock held by another
\* process: `except Timeout: pass`, and the caller goes on
LockTimeout ==
    /\ \E p \in 1..NProcesses :
         /\ proc_pc[p] = "start"
         /\ file_lock[LockPath(proc_cwd[p])] # 0
         /\ proc_pc' = [proc_pc EXCEPT ![p] = "skipped"]
    /\ UNCHANGED << proc_cwd, proc_key, proc_content, proc_exc, file_lock, config >>
    /\ UNCHANGED << driverVars, helperVars, serverVars >>

\* content = file.read()
ReadConfig ==
    /\ \E p \in 1..NProcesses :
         /\ proc_pc[p] = "locked"
         /\ proc_content' = [proc_content EXCEPT ![p] = config]
         /\ proc_pc' = [proc_pc EXCEPT ![p] = "read"]
    /\ UNCHANGED << proc_cwd, proc_key, proc_exc, file_lock, config >>
    /\ UNCHANGED << driverVars, helperVars, serverVars >>

\* the apiKey of the content read is compared with new_api_key and the file
\* rewritten when they differ
ReplaceKey ==
    /\ \E p \in 1..NProcesses :
         /\ proc_pc[p] = "read"
         /\ config' = IF proc_content[p] # "nokey" /\ proc_content[p] # proc_key[p]
                      THEN proc_key[p] ELSE config
         /\ proc_pc' = [proc_pc EXCEPT ![p] = "written"]
    /\ UNCHANGED << proc_cwd, proc_key, proc_content, proc_exc, file_lock >>
    /\ UNCHANGED << driverVars, helperVars, serverVars >>

\* the end of `with lock`
ReleaseLock ==
    /\ \E p \in 1..NProcesses :
         /\ proc_pc[p] = "written"
         /\ file_lock' = [file_lock EXCEPT ![LockPath(proc_cwd[p])] = 0]
         /\ proc_pc' = [proc_pc EXCEPT ![p] = "done"]
    /\ UNCHANGED << proc_cwd, proc_key, proc_content, proc_exc, config >>
    /\ UNCHANGED << driverVars, helperVars, serverVars >>

LockNext ==
    \/ AcquireLock
    \/ LockTimeout
    \/ ReadConfig
    \/ ReplaceKey
    \/ ReleaseLock

LockSpec == LockInit /\ [][LockNext]_vars

(* ======================= SeleniumChatGPTServer.py ===================== *)
\* the route groups of the server: "operation" stands for the routes whose
\* handler is `if not client: 404 / try: client.<operation>(...) / except
\* Exception: handle_error` (reset_to_specified_mode, switch_model,
\* switch_temporary_mode, regenerate, chat)
Routes == {"shutdown", "start_client", "new_chat", "operation"}

\* positions of a handler between its dispatch and the end of its request
Executing == {"handler", "construct", "refresh_start", "refresh_new", "op",
              "after", "teardown"}

\* positions inside a call into the driver
InDriver == {"construct", "refresh_start", "refresh_new", "op"}

ThreadedServer == TRUE

\* app.run(host='0.0.0.0', port=15001, threaded=False)
Threaded == FALSE

RefreshWhenever == client = "Client"

\* refresh_if_needed: the idle test and `if client`
RefreshNeeded ==
    /\ srv_time - LAST_REQUEST_TIME > MAX_IDLE_SECONDS
    /\ client = "Client"

\* the module is loaded and app.run is serving
ServerInit ==
    /\ DriverInit
    /\ login_type = "OpenAI"
    /\ clipboard = 0
    /\ displayed = "4o"
    /\ HelperIdle
    /\ LockIdle
    /\ client = "None"
    /\ TEARDOWN = FALSE
    /\ LAST_REQUEST_TIME = 0
    /\ srv_time = 0
    /\ serving = TRUE
    /\ browser = "none"
    /\ req = [c \in 1..MaxConnections |-> NoRequest]
    /\ sessionFailed = FALSE
    /\ servedFailed = FALSE

\* shutdown(): `if client and client.quit(): client = None`, else TEARDOWN
ShutdownCall ==
    IF client = "Client"
    THEN \E raised \in BOOLEAN :
           IF QuitResult(raised).val = "True"
           THEN client' = "None" /\ browser' = "quit" /\ UNCHANGED TEARDOWN
           ELSE TEARDOWN' = TRUE /\ UNCHANGED << client, browser >>
    ELSE TEARDOWN' = TRUE /\ UNCHANGED << client, browser >>

\* handle_error(e): shutdown() and the 400 payload
HandleError(c) ==
    /\ ShutdownCall
    /\ req' = [req EXCEPT ![c].pc = "after", ![c].code = 400, ![c].raised = TRUE,
                          ![c].shut = ShutdownOutcome(client, client')]
    /\ sessionFailed' = TRUE

\* a caller sends a request
SendRequest ==
    /\ serving
    /\ \E c \in 1..MaxConnections, r \in Routes :
         /\ req[c].pc = "none"
         /\ req' = [req EXCEPT ![c] = [NoRequest EXCEPT !.route = r, !.pc = "sent"]]
    /\ UNCHANGED << client, TEARDOWN, LAST_REQUEST_TIME, srv_time, serving, browser,
                    sessionFailed, servedFailed >>
    /\ UNCHANGED << driverVars, helperVars >>
    /\ UNCHANGED lockVars

\* the server takes a request up: with threaded=False only when no other
\* request is being handled
Accept ==
    /\ serving
    /\ \E c \in 1..MaxConnections :
         /\ req[c].pc = "sent"
         /\ Threaded \/ \A d \in 1..MaxConnections : req[d].pc \notin Executing
         /\ req' = [req EXCEPT ![c].pc = "handler"]
    /\ UNCHANGED << client, TEARDOWN, LAST_REQUEST_TIME, srv_time, serving, browser,
                    sessionFailed, servedFailed >>
    /\ UNCHANGED << driverVars, helperVars >>
    /\ UNCHANGED lockVars

\* the /shutdown route
HandleShutdown ==
    /\ serving
    /\ \E c \in 1..MaxConnections :
         /\ req[c].pc = "handler"
         /\ req[c].route = "shutdown"
         /\ ShutdownCall
         /\ req' = [req EXCEPT ![c].pc = "after", ![c].code = 200,
                               ![c].found = client,
                               ![c].shut = ShutdownOutcome(client, client')]
    /\ UNCHANGED << LAST_REQUEST_TIME, srv_time, serving, sessionFailed, servedFailed >>
    /\ UNCHANGED << driverVars, helperVars >>
    /\ UNCHANGED lockVars

\* start_client up to its first call into the driver
HandleStartClient ==
    /\ serving
    /\ \E c \in 1..MaxConnections :
         /\ req[c].pc = "handler"
         /\ req[c].route = "start_client"
         /\ IF client = "Client"
            THEN IF RefreshNeeded
                 THEN /\ req' = [req EXCEPT ![c].pc = "refresh_start", ![c].found = client]
                      /\ servedFailed' = (servedFailed \/ sessionFailed)
                      /\ UNCHANGED sessionFailed
                 ELSE /\ req' = [req EXCEPT ![c].pc = "after", ![c].code = 201,
                                           ![c].found = client]
                      /\ UNCHANGED << sessionFailed, servedFailed >>
            ELSE /\ req' = [req EXCEPT ![c].pc = "construct", ![c].found = client]
                 /\ sessionFailed' = FALSE
                 /\ UNCHANGED servedFailed
    /\ UNCHANGED << client, TEARDOWN, LAST_REQUEST_TIME, srv_time, serving, browser >>
    /\ UNCHANGED << driverVars, helperVars >>
    /\ UNCHANGED lockVars

\* the handlers of new_chat and of the operation routes up to their first
\* call into the driver
HandleOperation ==
    /\ serving
    /\ \E c \in 1..MaxConnections :
         /\ req[c].pc = "handler"
         /\ req[c].route \in {"new_chat", "operation"}
         /\ IF client # "Client"
            THEN /\ req' = [req EXCEPT ![c].pc = "after", ![c].code = 404,
                                      ![c].found = client]
                 /\ UNCHANGED servedFailed
            ELSE /\ req' = [req EXCEPT ![c].pc =
                               IF req[c].route = "new_chat" /\ RefreshNeeded
                               THEN "refresh_new" ELSE "op",
                               ![c].found = client]
                 /\ servedFailed' = (servedFailed \/ sessionFailed)
    /\ UNCHANGED << client, TEARDOWN, LAST_REQUEST_TIME, srv_time, serving, browser,
                    sessionFailed >>
    /\ UNCHANGED << driverVars, helperVars >>
    /\ UNCHANGED lockVars

\* SeleniumChatGPT(...) in start_client ends: Chrome does not load, or it
\* loads and _login raises, or the object is constructed
ConstructorEnds ==
    /\ serving
    /\ \E c \in 1..MaxConnections, outcome \in {"chrome_failed", "login_failed", "ok"} :
         /\ req[c].pc = "construct"
         /\ IF outcome = "ok"
            THEN /\ client' = "Client"
                 /\ browser' = "running"
                 /\ req' = [req EXCEPT ![c].pc = "after", ![c].code = 200]
                 /\ UNCHANGED << TEARDOWN, sessionFailed >>
            ELSE IF client = "None"
                 THEN \* client is unbound: shutdown() cannot quit the browser
                      \* the constructor started
                      /\ TEARDOWN' = TRUE
                      /\ browser' = IF outcome = "login_failed" THEN "running" ELSE browser
                      /\ UNCHANGED client
                      /\ req' = [req EXCEPT ![c].pc = "after", ![c].code = 400,
                                            ![c].raised = TRUE,
                                            ![c].shut = ShutdownOutcome(client, client)]
                      /\ sessionFailed' = TRUE
                 ELSE HandleError(c)
    /\ UNCHANGED << LAST_REQUEST_TIME, srv_time, serving, servedFailed >>
    /\ UNCHANGED << driverVars, helperVars >>
    /\ UNCHANGED lockVars

\* client.refresh_page() ends: in start_client the call is outside the try,
\* in new_chat inside it
RefreshEnds ==
    /\ serving
    /\ \E c \in 1..MaxConnections, raised \in BOOLEAN :
         /\ req[c].pc \in {"refresh_start", "refresh_new"}
         /\ IF req[c].pc = "refresh_start"
            THEN /\ req' = [req EXCEPT ![c].pc = "after",
                                      ![c].code = IF raised THEN 500 ELSE 201,
                                      ![c].raised = raised]
                 /\ sessionFailed' = (sessionFailed \/ raised)
                 /\ UNCHANGED << client, TEARDOWN, browser >>
            ELSE IF raised
                 THEN HandleError(c)
                 ELSE /\ req' = [req EXCEPT ![c].pc = "op"]
                      /\ UNCHANGED << client, TEARDOWN, browser, sessionFailed >>
    /\ UNCHANGED << LAST_REQUEST_TIME, srv_time, serving, servedFailed >>
    /\ UNCHANGED << driverVars, helperVars >>
    /\ UNCHANGED lockVars

\* the operation called in the try of a handler returns or raises
OperationEnds ==
    /\ serving
    /\ \E c \in 1..MaxConnections, raised \in BOOLEAN :
         /\ req[c].pc = "op"
         /\ IF raised
            THEN HandleError(c)
            ELSE /\ req' = [req EXCEPT ![c].pc = "after", ![c].code = 200]
                 /\ UNCHANGED << client, TEARDOWN, browser, sessionFailed >>
    /\ UNCHANGED << LAST_REQUEST_TIME, srv_time, serving, servedFailed >>
    /\ UNCHANGED << driverVars, helperVars >>
    /\ UNCHANGED lockVars

\* after_request_func
AfterRequest ==
    /\ serving
    /\ \E c \in 1..MaxConnections :
         /\ req[c].pc = "after"
         /\ LAST_REQUEST_TIME' = srv_time
         /\ req' = [req EXCEPT ![c].pc = "teardown"]
    /\ UNCHANGED << client, TEARDOWN, srv_time, serving, browser, sessionFailed,
                    servedFailed >>
    /\ UNCHANGED << driverVars, helperVars >>
    /\ UNCHANGED lockVars

\* teardown_request_func: SIGINT to the own process when TEARDOWN is set;
\* the request is over
TeardownRequest ==
    /\ serving
    /\ \E c \in 1..MaxConnections :
         /\ req[c].pc = "teardown"
         /\ serving' = ~SignalSent(TEARDOWN)
         /\ req' = [req EXCEPT ![c] = NoRequest]
    /\ UNCHANGED << client, TEARDOWN, LAST_REQUEST_TIME, srv_time, browser,
                    sessionFailed, servedFailed >>
    /\ UNCHANGED << driverVars, helperVars >>
    /\ UNCHANGED lockVars

\* time passes in the server process
ServerTick ==
    /\ serving
    /\ srv_time < MaxTicks * TickSeconds
    /\ srv_time' = srv_time + TickSeconds
    /\ UNCHANGED << client, TEARDOWN, LAST_REQUEST_TIME, serving, browser, req,
                    sessionFailed, servedFailed >>
    /\ UNCHANGED << driverVars, helperVars >>
    /\ UNCHANGED lockVars

ServerNext ==
    \/ SendRequest
    \/ Accept
    \/ HandleShutdown
    \/ HandleStartClient
    \/ HandleOperation
    \/ ConstructorEnds
    \/ RefreshEnds
    \/ OperationEnds
    \/ AfterRequest
    \/ TeardownRequest
    \/ ServerTick

ServerSpec == ServerInit /\ [][ServerNext]_vars

Next ==
    \/ LoginEnter
    \/ LoginCheck
    \/ LoginWelcome
    \/ LoginSubFlow
    \/ LoginLoop
    \/ LoginStaySignedIn
    \/ LoginCloudFlare
    \/ StartChat
    \/ StartRegenerate
    \/ StartNewChat
    \/ ChatTextarea
    \/ ChatRead
    \/ ChatInput
    \/ ChatSendDisabled
    \/ ChatSend
    \/ RegenRead
    \/ RegenClick
    \/ RegenGone
    \/ GenLoop
    \/ GenStop
    \/ GenCheckRegenerate
    \/ GenCheckError
    \/ AnswerWait
    \/ CopyClear
    \/ CopyClick
    \/ CopyPoll
    \/ NewChatClick
    \/ NewChatWait
    \/ StartSwitchModel
    \/ SwitchGetCurrent
    \/ SwitchOpenMenu
    \/ SwitchWaitItems
    \/ SwitchModelNames
    \/ SwitchClickItem
    \/ StartSwitchTemporaryMode
    \/ TempGetCurrent
    \/ TempOpenMenu
    \/ TempClickSwitch
    \/ Quit
    \/ DocGrow
    \/ ClipboardWrite

Spec == Init /\ [][Next]_vars

\* login, chat and regenerate with the remote, the other operations left
\* out; every step of a call is taken in the end (each wait returns or times
\* out) and the remote serves a pending copy
AskNext ==
    \/ LoginEnter
    \/ LoginCheck
    \/ LoginWelcome
    \/ LoginSubFlow
    \/ LoginLoop
    \/ LoginStaySignedIn
    \/ LoginCloudFlare
    \/ StartChat
    \/ StartRegenerate
    \/ ChatTextarea
    \/ ChatRead
    \/ ChatInput
    \/ ChatSendDisabled
    \/ ChatSend
    \/ RegenRead
    \/ RegenClick
    \/ RegenGone
    \/ GenLoop
    \/ GenStop
    \/ GenCheckRegenerate
    \/ GenCheckError
    \/ AnswerWait
    \/ CopyClear
    \/ CopyClick
    \/ CopyPoll
    \/ DocGrow
    \/ ClipboardWrite

AskFairness ==
    /\ WF_vars(ChatTextarea) /\ WF_vars(ChatRead) /\ WF_vars(ChatInput)
    /\ WF_vars(ChatSendDisabled) /\ WF_vars(ChatSend)
    /\ WF_vars(RegenRead) /\ WF_vars(RegenClick) /\ WF_vars(RegenGone)
    /\ WF_vars(GenLoop) /\ WF_vars(GenStop) /\ WF_vars(GenCheckRegenerate)
    /\ WF_vars(GenCheckError)
    /\ WF_vars(AnswerWait) /\ WF_vars(CopyClear) /\ WF_vars(CopyClick)
    /\ WF_vars(CopyPoll)
    /\ WF_vars(ClipboardWrite)

AskSpec == Init /\ [][AskNext]_vars /\ AskFairness

(* ============================ properties ============================ *)
IsPrefix(s, t) == Len(s) <= Len(t) /\ SubSeq(t, 1, Len(s)) = s

Count(s, x) == Cardinality({i \in 1..Len(s) : s[i] = x})

InAsk == hist.kind = "chat"

InRegenerate == hist.kind = "regenerate"

InGeneration == hist.kind \in {"chat", "regenerate"}

InLogin == hist.kind = "login"

\* the call the record is about has returned / has raised
Returned == pc = "idle" /\ err = "none"

Raised == pc = "failed"

\* the turn the ask read, with the baseline for an absent one
ObservedOrBaseline == IF hist.observed = 0 THEN BASELINE_TURN ELSE hist.observed

\* the errors the specification calls LoginFailed, GenerationError and
\* GenerationExhausted
LoginFailed == {"RetryError", "LoginMaxRetries"}

LoginStatusUnknown == "LoginStatus"

GenerationError == "GenError"

GenerationExhausted == "RegenMaxRetries"

(* C1: in every ask, once the last assistant turn has been read, the turn  *)
(* the lifecycle wait and the answer wait are made on is the observed last *)
(* turn + 2 (baseline 1 when there was none, so 3 in a fresh conversation),*)
(* and in a successful ask that is the turn the answer is copied from.     *)
C1_TargetIsLastPlusTwo ==
    (InAsk /\ hist.read) =>
        /\ expected_turn = ObservedOrBaseline + 2
        /\ hist.observed = 0 => expected_turn = 3
        /\ hist.target # 0 => hist.target = ObservedOrBaseline + 2
        /\ hist.copied # 0 => hist.copied = ObservedOrBaseline + 2
        /\ Returned => answer = ObservedOrBaseline + 2

C1_Witness ==
    InAsk /\ Returned /\ hist.observed = 0 /\ hist.target = 3 /\ answer = 3

(* C2: of two consecutive successful asks of one conversation, the second  *)
(* read a strictly greater last turn than the first.                       *)
C2_SecondAskSeesGreaterTurn ==
    hist.prevPrev # 0 => hist.prevAsk > hist.prevPrev

C2_Witness ==
    InAsk /\ Returned /\ hist.prevPrev = 1 /\ hist.prevAsk = 3

(* C3: in every ask the question text has been entered into the input      *)
(* surface when the send control is clicked, and the send control is       *)
(* clicked only after the disabled send control was seen gone.             *)
C3_TextEnteredBeforeSend ==
    (InAsk /\ hist.sendClick) => (hist.typedFirst /\ hist.sendGone)

(* C4: an ask / regenerate whose lifecycle iterations resolve, in order,   *)
(* the regenerate button, the regenerate button and a normal completion    *)
(* does not fail in an iteration that resolved the regenerate button,      *)
(* makes one regenerate click per such iteration (two in all), leaves the  *)
(* loop in the third iteration and returns the extracted answer.           *)
C4_TwoRegeneratesThenAnswer ==
    (InGeneration /\ hist.obs # << >>
       /\ IsPrefix(hist.obs, << "Regenerate", "Regenerate", "Normal" >>)) =>
        /\ hist.clicks = Count(hist.obs, "Regenerate")
        /\ hist.obs[Len(hist.obs)] = "Regenerate" => ~Raised
        /\ Len(hist.obs) = 3 => (hist.clicks = 2 /\ hist.exitIter = 3)
        /\ (Len(hist.obs) = 3 /\ Returned) => answer = expected_turn

(* C5: an ask / regenerate during whose first lifecycle iteration an error *)
(* banner is shown at the expected turn ends with GenerationError in that  *)
(* iteration, without a regenerate click.                                  *)
C5_BannerRaisesGenerationError ==
    (InGeneration /\ hist.banner1 /\ (Returned \/ Raised)) =>
        /\ Raised
        /\ err = GenerationError
        /\ hist.clicks = 0
        /\ Len(hist.obs) = 1

(* C6: an ask / regenerate that ends in the lifecycle loop, none of whose  *)
(* iterations reached the normal completion (each resolved a regenerate    *)
(* button), ends with GenerationExhausted after the iteration bound; and   *)
(* an answer is returned only after a normal completion.                   *)
C6_ExhaustionIsGenerationExhausted ==
    InGeneration =>
        /\ (Raised /\ hist.obs # << >>
              /\ \A i \in 1..Len(hist.obs) :
                    hist.obs[i] \in {"Regenerate", "LateRegenerate"})
           => (err = GenerationExhausted /\ Len(hist.obs) = GEN_MAX_TRIES)
        /\ Returned => (hist.obs # << >> /\ hist.obs[Len(hist.obs)] = "Normal")

(* C7: in every regenerate, the expected turn the lifecycle wait and the   *)
(* answer extraction are made on is the last assistant turn read before    *)
(* the regenerate click, from the read to the end of the call.             *)
C7_RegenerateKeepsTurn ==
    (InRegenerate /\ hist.read) =>
        /\ expected_turn = hist.observed
        /\ last_turn = hist.observed
        /\ hist.target # 0 => hist.target = hist.observed
        /\ hist.copied # 0 => hist.copied = hist.observed
        /\ Returned => answer = hist.observed

C7_Witness ==
    InRegenerate /\ Returned /\ hist.observed = 3 /\ hist.target = 3 /\ answer = 3

(* C8: a login whose attempts run, in order, into the transient error      *)
(* banner, the transient error banner and the authenticated input surface  *)
(* ends only by succeeding, after exactly 3 attempts.                      *)
C8_LoginRecoversOnThirdAttempt ==
    (InLogin /\ (Returned \/ Raised) /\ hist.log # << >>
       /\ IsPrefix(hist.log, << "Oops", "Oops", "Textarea" >>)) =>
        /\ hist.log = << "Oops", "Oops", "Textarea" >>
        /\ Returned
        /\ attempt = 3

(* C9: a login all of whose attempts run into the transient error banner   *)
(* ends with LoginFailed after exactly 5 attempts, never a 6th.            *)
C9_LoginFailsAfterFiveAttempts ==
    /\ attempt <= LOGIN_ATTEMPTS
    /\ (InLogin /\ (Returned \/ Raised) /\ hist.log # << >>
          /\ \A i \in 1..Len(hist.log) : hist.log[i] = "Oops") =>
           /\ Raised
           /\ err \in LoginFailed
           /\ Len(hist.log) = LOGIN_ATTEMPTS
           /\ attempt = LOGIN_ATTEMPTS

(* C10: only an exception whose message is the transient-error signature   *)
(* is followed by another login attempt; any other exception leaves _login *)
(* as it is, after the attempt that raised it.                             *)
C10_OnlyOopsIsRetried ==
    InLogin =>
        /\ \A i \in 1..Len(hist.raised) :
              i < attempt => ExcMessage[hist.raised[i]] = << "Oops" >>
        /\ (Raised /\ err # "RetryError") =>
              /\ Len(hist.raised) = attempt
              /\ err = hist.raised[attempt]
        /\ (Raised /\ ExcMessage[hist.raised[Len(hist.raised)]] # << "Oops" >>) =>
              err = hist.raised[Len(hist.raised)]

C10_Witness ==
    /\ InLogin
    /\ Raised
    /\ attempt = 1
    /\ hist.raised \in { << "Timeout" >>, << "NoSuchElement" >>, << "AttributeError" >> }
    /\ err = hist.raised[1]

(* C11: when the status check of a login attempt finds neither login button *)
(* and finds the prompt textarea, the login returns at once, successfully:  *)
(* the provider sub-flow is not run and the post-submission loop is not     *)
(* entered in that attempt.                                                 *)
C11_AlreadyAuthenticatedReturns ==
    (InLogin /\ hist.entry = << FALSE, FALSE, TRUE >>) =>
        /\ Returned
        /\ ~hist.subRan
        /\ loop_count = 0
        /\ hist.log[Len(hist.log)] = "Already"
        /\ hist.raised = << >>

C11_Witness ==
    /\ InLogin
    /\ hist.entry = << FALSE, FALSE, TRUE >>
    /\ Returned
    /\ hist.log = << "Already" >>

(* C12: when the status check of a login attempt finds neither login button *)
(* nor the prompt textarea, the login fails with the LoginStatusUnknown     *)
(* error ('Login status check failed.'), a 'LoginStatus-Error' snapshot     *)
(* having been saved, and no further attempt is made.                       *)
C12_StatusUnknownSnapshotThenFatal ==
    (InLogin /\ hist.entry = << FALSE, FALSE, FALSE >>) =>
        /\ Raised
        /\ err = LoginStatusUnknown
        /\ "LoginStatus-Error" \in shots
        /\ Len(hist.raised) = attempt

(* C13: the post-submission loop of a login attempt runs at most            *)
(* LOGIN_MAX_TRIES iterations, and an attempt that used them all up without *)
(* resolving the prompt textarea ends the login with the LoginFailed error. *)
C13_LoginLoopBoundThenLoginFailed ==
    InLogin =>
        /\ loop_count <= LOGIN_MAX_TRIES
        /\ (hist.log # << >> /\ hist.log[Len(hist.log)] = "Exhausted") =>
              /\ loop_count = LOGIN_MAX_TRIES
              /\ Raised
              /\ err \in LoginFailed

(* C19: an ask / regenerate returns its answer only after the clipboard was *)
(* cleared, then the copy button of the last answer clicked, then the       *)
(* clipboard polled; the value returned is not empty, was put on the        *)
(* clipboard after the clear of this call, and none of this happens before  *)
(* the step before it.                                                      *)
C19_AnswerOnlyThroughClipboardPath ==
    InGeneration =>
        /\ hist.copied # 0 => hist.clickAfterClear
        /\ pc = "a_poll" => (hist.cleared /\ hist.copied # 0)
        /\ Returned =>
              /\ hist.cleared
              /\ hist.clickAfterClear
              /\ hist.fresh
              /\ answer # 0
              /\ answer # -1
              /\ answer = hist.copied

C19_Witness ==
    /\ InRegenerate
    /\ Returned
    /\ hist.cleared
    /\ hist.fresh
    /\ answer = hist.copied

(* C31: in the post-submission loop of a login attempt the label resolved  *)
(* by an iteration decides its step: 'StaySignedIn' is followed by the two  *)
(* clicks (checkbox, Yes) when the login type is Microsoft and by no click  *)
(* otherwise, and the loop goes on; 'CloudFlareVerification' by one click,  *)
(* and the loop goes on; 'OopsError' by the exception with the 'Oops'       *)
(* message; 'PromptTextarea' by the successful return of the login.         *)
C31_LoginLoopStepPerSignal ==
    (InLogin /\ hist.signal # "") =>
        /\ hist.signal = "StaySignedIn" =>
              /\ ~Returned
              /\ hist.stepClicks <= (IF login_type = "Microsoft" THEN 2 ELSE 0)
              /\ (pc = "l_loop" /\ login_type = "Microsoft") => hist.stepClicks = 2
        /\ hist.signal = "CloudFlareVerification" =>
              /\ ~Returned
              /\ hist.stepClicks <= 1
              /\ pc = "l_loop" => hist.stepClicks = 1
        /\ hist.signal = "OopsError" =>
              /\ Raised
              /\ hist.stepClicks = 0
              /\ hist.raised # << >>
              /\ ExcMessage[hist.raised[Len(hist.raised)]] = << "Oops" >>
        /\ hist.signal = "PromptTextarea" =>
              /\ Returned
              /\ hist.stepClicks = 0

InSwitchModel == hist.kind = "switch_model"

(* C20: a switch_model call whose target is the model currently displayed   *)
(* returns successfully without any click on the model menu and leaves the  *)
(* displayed model as it was; so a second switch_model(m) right after one   *)
(* that left m displayed changes nothing.                                   *)
C20_SwitchToCurrentModelIsNoOp ==
    (InSwitchModel /\ hist.current # "" /\ hist.current = target_model) =>
        /\ Returned
        /\ hist.uiClicks = 0
        /\ ~menuOpen
        /\ displayed = hist.shownAtRead

C20_Witness ==
    /\ InSwitchModel
    /\ hist.again
    /\ hist.current = target_model
    /\ Returned
    /\ hist.uiClicks = 0

InvalidModel == "InvalidModelName"

(* C21: a switch_model call whose target is not among the names read from   *)
(* the model menu ends with the InvalidModel error, having made no click.   *)
C21_InvalidModelRaisesWithoutClick ==
    (InSwitchModel /\ hist.enumerated /\ target_model \notin hist.names) =>
        /\ Raised
        /\ err = InvalidModel
        /\ hist.uiClicks = 0

InSwitchTemporaryMode == hist.kind = "switch_temporary_mode"

(* C22: a switch_temporary_mode call whose observed current mode equals the *)
(* target returns without any click and leaves the switch and the menu as   *)
(* they were; one whose observed mode differs and that returns has opened   *)
(* the menu with one click and clicked the switch exactly once; no call     *)
(* clicks the switch without having opened the menu, or more than once.     *)
C22_TemporaryModeActsOnlyOnChange ==
    (InSwitchTemporaryMode /\ hist.modeRead) =>
        /\ hist.is_temporary = target_mode =>
              /\ Returned
              /\ hist.uiClicks = 0
              /\ hist.toggles = 0
              /\ temporary = hist.tempAtRead
              /\ menuOpen = hist.menuAtRead
        /\ (hist.is_temporary # target_mode /\ Returned) =>
              /\ hist.uiClicks = 1
              /\ hist.toggles = 1
              /\ temporary = ~hist.tempAtRead
        /\ hist.toggles <= hist.uiClicks
        /\ hist.uiClicks <= 1

C22_Witness ==
    /\ InSwitchTemporaryMode
    /\ Returned
    /\ hist.is_temporary # target_mode
    /\ hist.toggles = 1
    /\ hist.uiClicks = 1

InQuit == hist.kind = "quit"

(* C23: quit never raises: every call, a repeated one included, ends with   *)
(* no error and returns True when browser.quit() succeeded and False when   *)
(* it raised.                                                               *)
C23_QuitReturnsBooleanNeverRaises ==
    InQuit =>
        /\ pc = "quit"
        /\ err = "none"
        /\ quit_ret = (IF hist.quitRaised THEN "False" ELSE "True")

C23_Witness ==
    /\ InQuit
    /\ hist.quits = MaxQuits
    /\ hist.quitRaised
    /\ quit_ret = "False"

RegenerateTags == {"Regenerate", "LateRegenerate"}

(* C28: an ask / regenerate in which, after the stop button has gone, the   *)
(* regenerate button or the error message is found does not fail at that    *)
(* point: the regenerate button is clicked and the loop goes on, so that    *)
(* the call can fail from there only by using up its iterations.            *)
C28_LateFailureRegeneratesAndRepeats ==
    (InGeneration /\ hist.obs # << >>
       /\ hist.obs[Len(hist.obs)] \in {"LateRegenerate", "LateError"}) =>
        /\ hist.clicks = Len(hist.obs)
        /\ loop_count = Len(hist.obs)
        /\ Raised => (err = GenerationExhausted /\ Len(hist.obs) = GEN_MAX_TRIES)

(* C29: the branches that ask for a snapshot end as they would without it:  *)
(* the unknown login status with LoginStatusUnknown, the transient login    *)
(* error with another attempt (LoginFailed after the last), the used-up     *)
(* login loop with LoginFailed, a found regenerate button with a click and  *)
(* the next iteration, the late error message with GenerationError, the     *)
(* used-up lifecycle iterations with GenerationExhausted.                   *)
C29_SnapshotDoesNotChangeOutcome ==
    /\ err # "AttributeError"
    /\ (InLogin /\ Raised /\ hist.log # << >>) =>
          /\ hist.log[Len(hist.log)] = "Unknown" => err = LoginStatusUnknown
          /\ hist.log[Len(hist.log)] = "Oops" =>
                (err \in LoginFailed /\ attempt = LOGIN_ATTEMPTS)
          /\ hist.log[Len(hist.log)] = "Exhausted" => err \in LoginFailed
    /\ (InGeneration /\ hist.obs # << >>) =>
          /\ hist.obs[Len(hist.obs)] \in RegenerateTags =>
                /\ hist.clicks = Len(hist.obs)
                /\ Raised => err = GenerationExhausted
          /\ hist.obs[Len(hist.obs)] = "LateError" =>
                (Raised /\ err = GenerationError)

C35_InputReturnsTrueOnlyWhenDelivered ==
    (InAsk /\ hist.inputReturned) => hist.typed

CallOver == pc \in {"idle", "failed", "quit"}

(* C36: an ask / regenerate runs at most GEN_MAX_TRIES iterations of the     *)
(* lifecycle loop and makes at most GEN_MAX_TRIES regenerate clicks in it,   *)
(* and, every step being taken in the end and the remote serving the copy,   *)
(* a call that is under way ends, with an answer or an error.                *)
C36_BoundedLoopAndTermination ==
    /\ [](InGeneration => (loop_count <= GEN_MAX_TRIES /\ hist.clicks <= GEN_MAX_TRIES))
    /\ (InGeneration /\ ~CallOver) ~> CallOver

C36_Witness ==
    /\ InGeneration
    /\ Returned
    /\ answer = expected_turn
    /\ hist.exitIter = 1
    /\ hist.clicks = 0
    /\ hist.copied # 0

InLifecycle == pc \in {"g_loop", "g_stop", "g_regen", "g_error", "a_wait", "a_clear", "a_click", "a_poll"}

(* C37: regenerate reads the last assistant turn, then clicks the           *)
(* regenerate control of that turn, then waits until the old answer at that *)
(* turn is gone, and only then enters the lifecycle loop; when no assistant *)
(* turn is there, it fails with no click made.                              *)
C37_RegenerateOrdering ==
    InRegenerate =>
        /\ hist.preClick => (hist.read /\ hist.observed # 0 /\ expected_turn = hist.observed)
        /\ hist.oldGone => hist.preClick
        /\ (InLifecycle \/ hist.obs # << >> \/ Returned) => hist.oldGone
        /\ hist.noTurn =>
              (Raised /\ ~hist.read /\ ~hist.preClick /\ hist.clicks = 0 /\ hist.obs = << >>)
        /\ (pc \in {"r_read", "r_click", "r_gone"}) => (hist.obs = << >> /\ hist.clicks = 0)

C37_Witness ==
    /\ InRegenerate
    /\ pc = "g_loop"
    /\ hist.read
    /\ hist.preClick
    /\ hist.oldGone
    /\ hist.obs = << >>

(* ------------------- properties of the helper primitives ------------- *)
InFirstOf == h_fn = "wait_for_mutually_exclusive_elements"

InStability == h_fn = "check_element_stability"

HelperReturned == h_pc = "done" /\ h_out.exc = "none"

HelperRaised == h_pc = "done" /\ h_out.exc # "none"

(* C14: a wait_for_mutually_exclusive_elements call that returns, returns   *)
(* one label of the given labels with the element of that label's locator,  *)
(* or (None, None); it returns (None, None) exactly when the wait timed out *)
(* with no locator visible and ignore_timeout was set.                      *)
C14_OneLabelOrNoneOnIgnoredTimeout ==
    (InFirstOf /\ h_pc = "done") =>
        /\ HelperReturned =>
              \/ h_out.val = "None" /\ h_elem = 0
              \/ \E i \in 1..NLocators : h_out.val = HelperLabels[i] /\ h_elem = i
        /\ (HelperReturned /\ h_out.val = "None") <=> (h_seen = {} /\ h_ignore)

C14_Witness ==
    InFirstOf /\ HelperReturned /\ h_out.val = "None" /\ h_seen = {} /\ h_ignore

(* C15: a wait_for_mutually_exclusive_elements call made on a document in   *)
(* which exactly one of the locators is visible (the others absent or not   *)
(* displayed, the document not changing under the call) returns the label   *)
(* and the element of that visible locator.                                 *)
C15_OnlyVisibleLocatorIsReturned ==
    (InFirstOf /\ h_pc = "done" /\ h_changes = 0 /\ Cardinality(h_seen) = 1) =>
        \E i \in h_seen : h_out = Ret(HelperLabels[i]) /\ h_elem = i

(* C16: check_element_stability returns the element only when the reads of  *)
(* its content made during the last confirmation_time seconds and more all  *)
(* gave the same value; and when the content changed exactly once after the *)
(* first read, at least confirmation_time seconds have passed since that    *)
(* change.                                                                  *)
C16_StableForWindowBeforeReturn ==
    (InStability /\ HelperReturned /\ h_out.val = "Element") =>
        /\ \E i \in 1..Len(obsLog) :
              /\ obsLog[i][1] <= now - confirmation_time
              /\ \A j \in i..Len(obsLog) : obsLog[j][2] = obsLog[Len(obsLog)][2]
        /\ (mutations = 1 /\ lastMut >= obsLog[1][1]) =>
              now - lastMut >= confirmation_time

C16_Witness ==
    /\ InStability
    /\ HelperReturned
    /\ h_out.val = "Element"
    /\ mutations = 1
    /\ lastMut > obsLog[1][1]
    /\ lastMut - obsLog[1][1] < confirmation_time
    /\ now - lastMut >= confirmation_time

(* C17: find_element_or_fail on an absent element, wait_until_appear on an  *)
(* element that is not visible and wait_until_disappear on a visible one    *)
(* raise when the ignore flag is false, and return None, None and False     *)
(* without raising when it is true.                                         *)
C17_IgnoreFlagSoftensAbsence ==
    h_pc = "done" =>
        /\ (h_fn = "find_element_or_fail" /\ h_doc[1] = "absent") =>
              IF h_ignore THEN h_out = Ret("None") /\ h_elem = 0
              ELSE h_out.exc = "NoSuchElement"
        /\ (h_fn = "wait_until_appear" /\ h_doc[1] # "visible") =>
              IF h_ignore THEN h_out = Ret("None") /\ h_elem = 0
              ELSE h_out.exc = "Timeout"
        /\ (h_fn = "wait_until_disappear" /\ h_doc[1] = "visible") =>
              IF h_ignore THEN h_out = Ret("False") ELSE h_out.exc = "Timeout"

C17_Witness ==
    /\ h_pc = "done"
    /\ h_fn = "wait_until_appear"
    /\ h_doc[1] = "hidden"
    /\ h_ignore
    /\ h_out = Ret("None")

(* C18: check_element_stability called with ignore_timeout = True on an     *)
(* element that is never visible (no read of its content is ever made)      *)
(* returns None and raises nothing.                                         *)
C18_StabilityIgnoredTimeoutReturnsNone ==
    (InStability /\ h_pc = "done" /\ h_ignore /\ obsLog = << >>) =>
        h_out = Ret("None")

(* C26: a wait_for_mutually_exclusive_elements call that returns a label    *)
(* returns the label and the element of the locator of smallest index among *)
(* those present in the document at that moment, whichever of them was      *)
(* visible when the wait ended.                                             *)
C26_FirstMatchInDeclarationOrder ==
    (InFirstOf /\ HelperReturned /\ h_out.val # "None") =>
        /\ h_elem \in PresentLocators
        /\ \A j \in PresentLocators : h_elem <= j
        /\ h_out.val = HelperLabels[h_elem]

C26_Witness ==
    /\ InFirstOf
    /\ HelperReturned
    /\ Cardinality(PresentLocators) >= 2
    /\ h_elem # 0
    /\ h_elem \notin h_seen
    /\ h_out.val = HelperLabels[h_elem]

(* C27: a wait_for_mutually_exclusive_elements call whose wait ended with a *)
(* locator visible ends by returning one label with its element, also when  *)
(* no locator matches any more by then; it does not end in an error.        *)
C27_CommitsToOneResultAfterWait ==
    (InFirstOf /\ h_pc = "done" /\ h_seen # {}) =>
        /\ HelperReturned
        /\ \E i \in 1..NLocators : h_out.val = HelperLabels[i] /\ h_elem = i

FinalReadDiffered ==
    /\ Len(obsLog) >= 3
    /\ obsLog[Len(obsLog) - 2][1] = obsLog[Len(obsLog)][1]

(* C30: check_element_stability returns the element only after one more     *)
(* read of the content, made at the time the window was found elapsed, that  *)
(* equals the recorded content; when that read differs the element is not    *)
(* returned, the recorded content becomes the content read last and the      *)
(* confirmation clock restarts at that time.                                 *)
C30_FinalReadGuardsReturn ==
    InStability =>
        /\ (HelperReturned /\ h_out.val = "Element") =>
              /\ Len(obsLog) >= 2
              /\ obsLog[Len(obsLog) - 1][1] = obsLog[Len(obsLog)][1]
              /\ obsLog[Len(obsLog)][2] = obsLog[Len(obsLog) - 1][2]
              /\ obsLog[Len(obsLog)][2] = last_content
              /\ ~FinalReadDiffered
        /\ FinalReadDiffered =>
              /\ obsLog[Len(obsLog) - 1][2] # obsLog[Len(obsLog) - 2][2]
              /\ h_out.val # "Element"
              /\ last_content = obsLog[Len(obsLog)][2]
              /\ stability_start_time = obsLog[Len(obsLog)][1]

C30_Witness ==
    /\ InStability
    /\ FinalReadDiffered
    /\ h_pc = "sleep"
    /\ now > stability_start_time
    /\ last_content = obsLog[Len(obsLog)][2]

(* ----------------------- properties of the server -------------------- *)
(* C24: when a driver call made for a request has raised, the handler ends  *)
(* with the 400 payload, the browser quit and the client dropped; and no    *)
(* driver call is started on a session in which a call has raised.          *)
C24_RaisedOperationTearsSessionDown ==
    /\ \A c \in 1..MaxConnections :
         (req[c].pc = "after" /\ req[c].raised) =>
             /\ req[c].code = 400
             /\ client = "None"
             /\ browser # "running"
    /\ ~servedFailed

(* C25: at most one request is being handled at any time, so at most one    *)
(* call into the driver is in flight.                                       *)
C25_AtMostOneOperationInFlight ==
    Cardinality({c \in 1..MaxConnections : req[c].pc \in Executing}) <= 1

C25_Witness ==
    \E c, d \in 1..MaxConnections :
        /\ req[c].pc \in InDriver
        /\ req[d].pc = "sent"
        /\ req[d].route # "shutdown"
(* C33: when the handler of a request in which a driver call raised, or of  *)
(* an explicit shutdown, has run, no browser of the session is running.     *)
C33_NoLiveBrowserAfterFatalFailure ==
    \A c \in 1..MaxConnections :
        (req[c].pc = "after" /\ (req[c].raised \/ req[c].route = "shutdown")) =>
            browser # "running"

(* C38: a session is constructed only by a start_client that found no       *)
(* client, and a driver call is made only for a request that found one:     *)
(* start_client that found a client answers 201 with the client kept, and   *)
(* new_chat and the operation routes that found none answer 404 with no     *)
(* driver call made.                                                        *)
C38_SingleClientAndGuardedOperations ==
    \A c \in 1..MaxConnections :
        /\ req[c].pc = "construct" => (req[c].found = "None" /\ client = "None")
        /\ req[c].pc \in {"refresh_start", "refresh_new", "op"} =>
              (req[c].found = "Client" /\ client = "Client")
        /\ (req[c].pc = "after" /\ req[c].route = "start_client" /\ req[c].found = "Client") =>
              (req[c].code = 201 /\ client = "Client")
        /\ (req[c].pc = "after" /\ req[c].route \in {"new_chat", "operation"} /\ req[c].found = "None") =>
              (req[c].code = 404 /\ ~req[c].raised /\ client = "None")

(* C39: the server process is signalled exactly when a shutdown(), called   *)
(* by the /shutdown route or by handle_error, found no client or a client   *)
(* whose quit failed, at the end of the request it ran in; a shutdown()     *)
(* whose quit succeeded leaves no client and the server serving; TEARDOWN,  *)
(* once set, stays set.                                                     *)
C39_SignalExactlyOnFailedShutdown ==
    /\ [](/\ ~serving => TEARDOWN
          /\ (TEARDOWN /\ \A c \in 1..MaxConnections : req[c].pc \notin Executing) => ~serving
          /\ (TEARDOWN /\ serving) =>
                \E c \in 1..MaxConnections :
                    /\ req[c].pc \in {"after", "teardown"}
                    /\ req[c].shut \in {"no_client", "quit_failed"}
          /\ \A c \in 1..MaxConnections :
                /\ req[c].shut \in {"no_client", "quit_failed"} => TEARDOWN
                /\ req[c].shut = "quit_failed" => client = "Client"
                /\ req[c].shut = "dropped" => (client = "None" /\ ~TEARDOWN /\ serving))
    /\ [][TEARDOWN => TEARDOWN']_vars

C39_Witness ==
    /\ ~serving
    /\ TEARDOWN
    /\ client = "Client"
    /\ browser = "running"

(* C40: client.refresh_page() is called only for start_client that found a  *)
(* client or for new_chat, and only when more than MAX_IDLE_SECONDS have     *)
(* passed since LAST_REQUEST_TIME; the operation routes never call it; and   *)
(* after_request_func sets LAST_REQUEST_TIME to the time it runs at, for     *)
(* every request.                                                            *)
C40_RefreshOnlyWhenIdleAndOnTwoRoutes ==
    /\ [](\A c \in 1..MaxConnections :
            /\ req[c].pc \in {"refresh_start", "refresh_new"} =>
                  /\ req[c].route = (IF req[c].pc = "refresh_start" THEN "start_client" ELSE "new_chat")
                  /\ req[c].found = "Client"
                  /\ srv_time - LAST_REQUEST_TIME > MAX_IDLE_SECONDS
            /\ req[c].route \in {"operation", "shutdown"} =>
                  req[c].pc \notin {"refresh_start", "refresh_new"})
    /\ [][/\ \A c \in 1..MaxConnections :
               /\ (req[c].pc = "after" /\ req'[c].pc # "after") =>
                     (req'[c].pc = "teardown" /\ LAST_REQUEST_TIME' = srv_time)
               /\ (req[c].pc # "teardown" /\ req'[c].pc = "teardown") => req[c].pc = "after"
          /\ LAST_REQUEST_TIME' # LAST_REQUEST_TIME =>
                 \E d \in 1..MaxConnections : req[d].pc = "after" /\ req'[d].pc = "teardown"]_vars

C40_Witness ==
    \E c \in 1..MaxConnections :
        /\ req[c].pc = "refresh_new"
        /\ req[c].route = "new_chat"
        /\ srv_time - LAST_REQUEST_TIME > MAX_IDLE_SECONDS
        /\ LAST_REQUEST_TIME > 0

(* ----------------- properties of _replace_api_key -------------------- *)
(* C32: at most one process is between its read and its write of the config *)
(* file at any time; and a process whose lock acquisition timed out has     *)
(* raised nothing and has neither read nor written the file.                *)
C32_ReadModifyWriteNeverInterleaves ==
    /\ Cardinality({p \in 1..NProcesses : proc_pc[p] = "read"}) <= 1
    /\ \A p \in 1..NProcesses :
         proc_pc[p] = "skipped" =>
             (proc_exc[p] = "none" /\ proc_content[p] = "unread")

====
